---- MODULE Spec2Model ----
(***************************************************************************)
(* Model of the two graph-search programs of the repository:               *)
(*   src/3_bfs_search_ciega.py            Grafo + AlgoritmoBFS             *)
(*   src/4_hillclimbing_search_informada.py  Grafo + AlgoritmoHillClimbing *)
(*                                                                         *)
(* Python strings are modelled as sequences of one-character strings, so   *)
(* that strip(), upper(), float() and ord() are computed, not assumed.     *)
(* Python floats are modelled as integers (the model only uses integral    *)
(* weights); evaluation scores are kept scaled by Escala so that the       *)
(* label heuristic |a - b| / 100 stays integral.                           *)
(* Optional values (None or a value) are the records Nada / Algo(v).       *)
(***************************************************************************)
EXTENDS Integers, Sequences, FiniteSets, TLC

(* ------------------------------ bounds -------------------------------- *)
\* most edges a graph of the graph-editing specification holds
MaxAristas == 2
\* most edge records in a document handed to cargar_desde_json
MaxRegistros == 2
\* most driver operations (edge insertions that built the graph, plus
\* search calls) in one behaviour of the search specification
MaxOps == 4
\* most edges of a graph the search specification starts from
MaxAristasBusqueda == 3
MaxHilos == 2
MaxEventos == 2
MaxIndice == 6
MaxAristasParcial == 2
MaxAristasConsulta == 2

(* ------------------------- strings and numbers ------------------------ *)
Nada == [hay |-> FALSE]
Algo(v) == [hay |-> TRUE, val |-> v]

\* str.upper() on the characters the model uses
Upper(c) ==
  CASE c = "a" -> "A"
    [] c = "b" -> "B"
    [] c = "c" -> "C"
    [] OTHER -> c

\* ord() on the characters the model uses
Ord(c) ==
  CASE c = " " -> 32
    [] c = "A" -> 65
    [] c = "B" -> 66
    [] c = "C" -> 67
    [] c = "a" -> 97
    [] c = "b" -> 98
    [] c = "c" -> 99
    [] OTHER -> 0

RECURSIVE LStrip(_)
LStrip(s) == IF s # <<>> /\ Head(s) = " " THEN LStrip(Tail(s)) ELSE s

RECURSIVE RStrip(_)
RStrip(s) ==
  IF s # <<>> /\ s[Len(s)] = " " THEN RStrip(SubSeq(s, 1, Len(s) - 1)) ELSE s

\* str.strip()
Strip(s) == RStrip(LStrip(s))

\* str.upper()
UpperStr(s) == [i \in 1..Len(s) |-> Upper(s[i])]

\* a faulty normalisation: strips only on the left
NormalizarSinRStrip(s) == UpperStr(LStrip(s))

\* str(x).strip().upper(), the normalisation of a node label
Normalizar(s) == UpperStr(Strip(s))

ValorDigito(c) ==
  CASE c = "0" -> 0
    [] c = "1" -> 1
    [] c = "2" -> 2
    [] c = "5" -> 5
    [] OTHER -> -1

EsDigito(c) == ValorDigito(c) >= 0

RECURSIVE ValorDecimal(_)
ValorDecimal(s) ==
  IF s = <<>> THEN 0
  ELSE 10 * ValorDecimal(SubSeq(s, 1, Len(s) - 1)) + ValorDigito(s[Len(s)])

\* a weight as the callers hand it over: a text, a float, or None
PesoTexto(t) == [tipo |-> "str", txt |-> t]
PesoFloat(n) == [tipo |-> "float", val |-> n]
PesoNone == [tipo |-> "NoneType"]

\* float(x): [exc |-> "" | "ValueError" | "TypeError", val |-> number]
Float(p) ==
  IF p.tipo = "float" THEN [exc |-> "", val |-> p.val]
  ELSE IF p.tipo = "NoneType" THEN [exc |-> "TypeError", val |-> 0]
  ELSE LET t == Strip(p.txt)
           neg == t # <<>> /\ Head(t) = "-"
           d == IF neg THEN Tail(t) ELSE t
       IN IF d # <<>> /\ \A i \in 1..Len(d) : EsDigito(d[i])
          THEN [exc |-> "", val |-> IF neg THEN 0 - ValorDecimal(d) ELSE ValorDecimal(d)]
          ELSE [exc |-> "ValueError", val |-> 0]

(* ------------------------------- state -------------------------------- *)
VARIABLES
  programa,          \* "bfs": 3_bfs_search_ciega.py, "hc": 4_hillclimbing_...py
  adyacencias,       \* Grafo.adyacencias: defaultdict(list), key -> <<destino, peso>>*
  aristas,           \* Grafo.aristas: list of <<origen, destino, peso>>
  nodos,             \* Grafo.nodos: set of labels
  posiciones_nodos,  \* Grafo.posiciones_nodos (program "hc"): label -> <<x, y>>
  ultimo,            \* the driver's last graph operation and what it returned
  pc,                \* "reposo": no call in progress; "bucle": inside the while loop
  cola,              \* AlgoritmoBFS.cola
  visitados,         \* AlgoritmoBFS.visitados / the local visitados of Hill Climbing
  padre,             \* AlgoritmoBFS.padre
  pasos_busqueda,    \* the searcher's list object self.pasos_busqueda
  inicio,            \* arguments and locals of the running buscar_camino
  final,
  paso,
  nodo_actual,
  camino,
  costo_total,
  max_iteraciones,
  posiciones_canvas,
  retornos,          \* what the caller holds: one entry per returned call
  animacion_activa,        \* InterfazGrafica.animacion_activa
  paso_actual_animacion,   \* InterfazGrafica.paso_actual_animacion
  traza_gui,         \* InterfazGrafica.pasos_busqueda: which list object it names
  asignados,         \* the returns _iniciar_busqueda has stored in the interface
  hilos,             \* the threads running _ejecutar_animacion
  eventos            \* the callbacks queued with ventana.after(0, ...)

grafoVars == <<adyacencias, aristas, nodos, posiciones_nodos>>
busquedaVars == <<pc, cola, visitados, padre, pasos_busqueda, inicio, final, paso,
                  nodo_actual, camino, costo_total, max_iteraciones,
                  posiciones_canvas, retornos>>
animVars == <<animacion_activa, paso_actual_animacion, traza_gui, asignados, hilos,
              eventos>>
vars == <<programa, adyacencias, aristas, nodos, posiciones_nodos, ultimo,
          pc, cola, visitados, padre, pasos_busqueda, inicio, final, paso,
          nodo_actual, camino, costo_total, max_iteraciones,
          posiciones_canvas, retornos, animacion_activa, paso_actual_animacion,
          traza_gui, asignados, hilos, eventos>>

\* the empty dict / defaultdict
DictVacio == [k \in {} |-> <<>>]

(* ------------------------------- Grafo -------------------------------- *)
\* a Grafo object as a value
GrafoActual ==
  [adyacencias |-> adyacencias, aristas |-> aristas, nodos |-> nodos,
   posiciones_nodos |-> posiciones_nodos]

\* Grafo.__init__
GrafoVacio ==
  [adyacencias |-> DictVacio, aristas |-> <<>>, nodos |-> {},
   posiciones_nodos |-> DictVacio]

\* defaultdict.__getitem__: reading a missing key inserts it with an empty list
Acceder(ady, k) == IF k \in DOMAIN ady THEN ady ELSE ady @@ (k :> <<>>)

\* a faulty agregar_arista: touches the adjacency list before parsing the weight
agregar_arista_parcial(g, origen, destino, peso) ==
  LET f == Float(peso)
      ady == Acceder(g.adyacencias, origen)
  IN IF f.exc # ""
     THEN [ret |-> FALSE, exc |-> IF f.exc = "ValueError" THEN "" ELSE f.exc,
           g |-> [g EXCEPT !.adyacencias = ady]]
     ELSE [ret |-> TRUE, exc |-> "",
           g |-> [g EXCEPT
                    !.adyacencias = [ady EXCEPT ![origen] = Append(@, <<destino, f.val>>)],
                    !.aristas = Append(@, <<origen, destino, f.val>>),
                    !.nodos = @ \cup {origen, destino}]]

\* Grafo.agregar_arista: [ret, exc, g]; a ValueError of float() is caught and
\* gives False, any other exception propagates
agregar_arista(g, origen, destino, peso) ==
  LET f == Float(peso)
      ady == Acceder(g.adyacencias, origen)
  IN IF f.exc = "ValueError" THEN [ret |-> FALSE, exc |-> "", g |-> g]
     ELSE IF f.exc # "" THEN [ret |-> FALSE, exc |-> f.exc, g |-> g]
     ELSE [ret |-> TRUE, exc |-> "",
           g |-> [g EXCEPT
                    !.adyacencias = [ady EXCEPT ![origen] = Append(@, <<destino, f.val>>)],
                    !.aristas = Append(@, <<origen, destino, f.val>>),
                    !.nodos = @ \cup {origen, destino}]]

\* a faulty limpiar: forgets the node set
limpiar_sin_nodos(g) ==
  [adyacencias |-> DictVacio, aristas |-> <<>>, nodos |-> g.nodos,
   posiciones_nodos |-> DictVacio]

\* Grafo.limpiar
limpiar(g) ==
  [adyacencias |-> DictVacio, aristas |-> <<>>, nodos |-> {},
   posiciones_nodos |-> DictVacio]

(* ------------------------ bulk load and export ------------------------ *)
\* A JSON document is [tiene_aristas, aristas, posiciones]; an edge record is
\* a record with some of the fields origen, destino, peso; posiciones is
\* [hay, alias, items]: alias means the very dict object Grafo.posiciones_nodos
\* (what exportar_a_json of program "hc" puts into the document), items is the
\* dict's entries in iteration order, each [nodo, pos].
SinPosiciones == [hay |-> FALSE, alias |-> FALSE, items |-> <<>>]

\* an error entry of cargar_desde_json: the 1-based position and the message
ErrorArista(i, clase, exc) == [indice |-> i + 1, clase |-> clase, exc |-> exc]

\* one pass of the loop body of cargar_desde_json over record regs[i + 1]
CargarUna(est, arista, i) ==
  IF "origen" \notin DOMAIN arista \/ "destino" \notin DOMAIN arista
     \/ "peso" \notin DOMAIN arista
  THEN [est EXCEPT !.errores = Append(@, ErrorArista(i, "Formato invalido", "KeyError"))]
  ELSE LET origen == Normalizar(arista.origen)
           destino == Normalizar(arista.destino)
           f == Float(arista.peso)
       IN IF f.exc # ""
          THEN [est EXCEPT !.errores = Append(@, ErrorArista(i, "Formato invalido", f.exc))]
          ELSE LET r == agregar_arista(est.g, origen, destino, PesoFloat(f.val))
               IN IF r.ret
                  THEN [est EXCEPT !.g = r.g, !.cargadas = @ + 1]
                  ELSE [est EXCEPT !.errores = Append(@, ErrorArista(i, "Error al procesar", ""))]

\* a faulty record loop: gives up at the first record that produced an error
RECURSIVE CargarAristasHastaError(_, _, _)
CargarAristasHastaError(est, regs, i) ==
  IF i >= Len(regs) \/ est.errores # <<>> THEN est
  ELSE CargarAristasHastaError(CargarUna(est, regs[i + 1], i), regs, i + 1)

RECURSIVE CargarAristas(_, _, _)
CargarAristas(est, regs, i) ==
  IF i >= Len(regs) THEN est
  ELSE CargarAristas(CargarUna(est, regs[i + 1], i), regs, i + 1)

\* the entries of a dict in some iteration order
RECURSIVE ItemsDe(_)
ItemsDe(d) ==
  IF DOMAIN d = {} THEN <<>>
  ELSE LET k == CHOOSE k \in DOMAIN d : TRUE
       IN <<[nodo |-> k, pos |-> [tipo |-> "tuple", val |-> d[k]]]>>
          \o ItemsDe([j \in DOMAIN d \ {k} |-> d[j]])

\* the loop over datos_json["posiciones"].items(): stops at the first entry
\* whose pos["x"], pos["y"] raises
RECURSIVE CargarPosiciones(_, _, _)
CargarPosiciones(est, items, i) ==
  IF i > Len(items) THEN est
  ELSE LET it == items[i]
       IN IF it.pos.tipo # "dict" THEN [est EXCEPT !.exc = "ValueError"]
          ELSE IF "x" \notin DOMAIN it.pos.val \/ "y" \notin DOMAIN it.pos.val
          THEN [est EXCEPT !.exc = "ValueError"]
          ELSE CargarPosiciones(
                 [est EXCEPT !.g.posiciones_nodos =
                    [k \in DOMAIN @ \cup {UpperStr(it.nodo)} |->
                       IF k = UpperStr(it.nodo) THEN <<it.pos.val.x, it.pos.val.y>>
                       ELSE @[k]]],
                 items, i + 1)

\* a faulty load: a document without the key counts as one with no records
cargar_desde_json_sin_clave(prog, g0, datos_json) ==
  LET g1 == limpiar(g0)
      est0 == [exc |-> "", cargadas |-> 0, errores |-> <<>>, g |-> g1]
  IN IF ~datos_json.tiene_aristas THEN est0
     ELSE CargarAristas(est0, datos_json.aristas, 0)

\* a faulty load: checks for the key before it clears the graph
cargar_desde_json_valida_antes(prog, g0, datos_json) ==
  LET g1 == limpiar(g0)
      est0 == [exc |-> "", cargadas |-> 0, errores |-> <<>>, g |-> g1]
  IN IF ~datos_json.tiene_aristas THEN [est0 EXCEPT !.exc = "ValueError", !.g = g0]
     ELSE LET est1 == CargarAristas(est0, datos_json.aristas, 0)
          IN IF prog = "hc" /\ datos_json.posiciones.hay
             THEN CargarPosiciones(est1,
                    IF datos_json.posiciones.alias
                    THEN ItemsDe(est1.g.posiciones_nodos)
                    ELSE datos_json.posiciones.items, 1)
             ELSE est1

\* Grafo.cargar_desde_json: [exc, cargadas, errores, g]; exc = "ValueError"
\* is the raise at the end of the method, g the graph it leaves behind
cargar_desde_json(prog, g0, datos_json) ==
  LET g1 == limpiar(g0)
      est0 == [exc |-> "", cargadas |-> 0, errores |-> <<>>, g |-> g1]
  IN IF ~datos_json.tiene_aristas THEN [est0 EXCEPT !.exc = "ValueError"]
     ELSE LET est1 == CargarAristas(est0, datos_json.aristas, 0)
          IN IF prog = "hc" /\ datos_json.posiciones.hay
             THEN CargarPosiciones(est1,
                    IF datos_json.posiciones.alias
                    THEN ItemsDe(est1.g.posiciones_nodos)
                    ELSE datos_json.posiciones.items, 1)
             ELSE est1

\* a faulty export: the edge list newest first
exportar_a_json_invertido(prog, g) ==
  [tiene_aristas |-> TRUE,
   nodos |-> g.nodos,
   aristas |-> [i \in 1..Len(g.aristas) |->
                  LET a == g.aristas[Len(g.aristas) + 1 - i]
                  IN [origen |-> a[1], destino |-> a[2], peso |-> PesoFloat(a[3])]],
   posiciones |-> IF prog = "hc" THEN [hay |-> TRUE, alias |-> TRUE, items |-> <<>>]
                  ELSE SinPosiciones]

\* Grafo.exportar_a_json
exportar_a_json(prog, g) ==
  [tiene_aristas |-> TRUE,
   nodos |-> g.nodos,
   aristas |-> [i \in 1..Len(g.aristas) |->
                  [origen |-> g.aristas[i][1], destino |-> g.aristas[i][2],
                   peso |-> PesoFloat(g.aristas[i][3])]],
   posiciones |-> IF prog = "hc" THEN [hay |-> TRUE, alias |-> TRUE, items |-> <<>>]
                  ELSE SinPosiciones]

(* ---------------- the driver's graph operations (SpecGrafo) ----------- *)
\* what the user types into the origen / destino entries
EntradasNodo == {<<"a", " ">>, <<" ", "B">>, <<" ">>}
\* what the user types into the peso entry
EntradasPeso == {<<"1">>, <<" ", "-", "5">>, <<"1", "x">>}

\* edge records of a JSON document: two well-formed ones, one without "peso",
\* one with a null weight
RegistrosJson ==
  { [origen |-> <<"a">>, destino |-> <<"b", " ">>, peso |-> PesoFloat(1)],
    [origen |-> <<" ", "B">>, destino |-> <<"A">>, peso |-> PesoTexto(<<"-", "5">>)],
    [origen |-> <<"A">>, destino |-> <<"B">>],
    [origen |-> <<"B">>, destino |-> <<"B">>, peso |-> PesoNone] }

\* a document whose second record has a weight that is no number
DocumentoPesoMalo ==
  [tiene_aristas |-> TRUE,
   aristas |-> <<[origen |-> <<"a">>, destino |-> <<"b", " ">>, peso |-> PesoFloat(1)],
                 [origen |-> <<"A">>, destino |-> <<"B">>, peso |-> PesoTexto(<<"x">>)]>>,
   posiciones |-> SinPosiciones]

\* a document with one malformed record (no "peso") among three valid ones
DocumentoEscenarioD ==
  [tiene_aristas |-> TRUE,
   aristas |-> <<[origen |-> <<"a">>, destino |-> <<"b", " ">>, peso |-> PesoFloat(1)],
                 [origen |-> <<"A">>, destino |-> <<"B">>],
                 [origen |-> <<" ", "B">>, destino |-> <<"A">>, peso |-> PesoTexto(<<"-", "5">>)],
                 [origen |-> <<"B">>, destino |-> <<"B">>, peso |-> PesoFloat(5)]>>,
   posiciones |-> SinPosiciones]

SeqsHasta(S, n) == UNION {[1..k -> S] : k \in 0..n}

PosicionesBuenas ==
  [hay |-> TRUE, alias |-> FALSE,
   items |-> <<[nodo |-> <<"a">>, pos |-> [tipo |-> "dict", val |-> [x |-> 0, y |-> 0]]],
               [nodo |-> <<"B">>, pos |-> [tipo |-> "dict", val |-> [x |-> 3, y |-> 4]]]>>]

PosicionesMalas ==
  [hay |-> TRUE, alias |-> FALSE,
   items |-> <<[nodo |-> <<"a">>, pos |-> [tipo |-> "dict", val |-> [x |-> 0, y |-> 0]]],
               [nodo |-> <<"B">>, pos |-> [tipo |-> "dict", val |-> [x |-> 3]]]>>]

UnaArista == <<[origen |-> <<"a">>, destino |-> <<"b", " ">>, peso |-> PesoFloat(1)]>>

\* the documents the driver loads
Documentos ==
  {[tiene_aristas |-> FALSE, aristas |-> UnaArista, posiciones |-> SinPosiciones]}
  \cup {[tiene_aristas |-> TRUE, aristas |-> a, posiciones |-> SinPosiciones] :
          a \in SeqsHasta(RegistrosJson, MaxRegistros)}
  \cup {[tiene_aristas |-> TRUE, aristas |-> UnaArista, posiciones |-> p] :
          p \in {PosicionesBuenas, PosicionesMalas}}
  \cup {DocumentoPesoMalo, DocumentoEscenarioD}

Resultado(op, ret, exc, cargadas, errores, entrada) ==
  [op |-> op, ret |-> ret, exc |-> exc, cargadas |-> cargadas, errores |-> errores,
   entrada |-> entrada]

\* a thread slot with no thread in it
HiloNulo == [pc |-> "nulo", paso |-> Nada, leido |-> 0]

\* InterfazGrafica.__init__: no replay, an empty list of its own, no thread
AnimacionEnReposo ==
  /\ animacion_activa = FALSE
  /\ paso_actual_animacion = 0
  /\ traza_gui = [alias |-> FALSE, propia |-> <<>>]
  /\ asignados = 0
  /\ hilos = [h \in 1..MaxHilos |-> HiloNulo]
  /\ eventos = <<>>

BusquedaEnReposo ==
  /\ pc = "reposo"
  /\ cola = <<>>
  /\ visitados = {}
  /\ padre = DictVacio
  /\ pasos_busqueda = <<>>
  /\ inicio = <<>>
  /\ final = <<>>
  /\ paso = 0
  /\ nodo_actual = Nada
  /\ camino = <<>>
  /\ costo_total = 0
  /\ max_iteraciones = 0
  /\ posiciones_canvas = DictVacio
  /\ retornos = <<>>

PonerGrafo(g) ==
  /\ adyacencias' = g.adyacencias
  /\ aristas' = g.aristas
  /\ nodos' = g.nodos
  /\ posiciones_nodos' = g.posiciones_nodos

InitGrafo ==
  /\ programa \in {"bfs", "hc"}
  /\ adyacencias = DictVacio
  /\ aristas = <<>>
  /\ nodos = {}
  /\ posiciones_nodos = DictVacio
  /\ ultimo = Resultado("init", FALSE, "", 0, <<>>, [x |-> 0])
  /\ BusquedaEnReposo
  /\ AnimacionEnReposo

\* InterfazGrafica._agregar_arista: the entries are stripped (and the labels
\* upper-cased), an empty field only warns, otherwise Grafo.agregar_arista
AgregarArista(eo, ed, ep) ==
  LET origen == Normalizar(eo)
      destino == Normalizar(ed)
      peso == Strip(ep)
      entrada == [origen |-> origen, destino |-> destino, peso |-> peso,
                  tecleado |-> <<eo, ed, ep>>]
  IN /\ Len(aristas) < MaxAristas
     /\ IF origen = <<>> \/ destino = <<>> \/ peso = <<>>
        THEN /\ ultimo' = Resultado("advertencia", FALSE, "", 0, <<>>, entrada)
             /\ UNCHANGED grafoVars
        ELSE LET r == agregar_arista(GrafoActual, origen, destino, PesoTexto(peso))
             IN /\ PonerGrafo(r.g)
                /\ ultimo' = Resultado("agregar", r.ret, r.exc, 0, <<>>, entrada)
     /\ UNCHANGED <<programa, animVars, busquedaVars>>

\* InterfazGrafica._cargar_json: Grafo.cargar_desde_json on a parsed document
CargarJson(datos_json) ==
  LET r == cargar_desde_json(programa, GrafoActual, datos_json)
  IN /\ PonerGrafo(r.g)
     /\ ultimo' = Resultado("cargar", r.exc = "", r.exc, r.cargadas, r.errores, datos_json)
     /\ UNCHANGED <<programa, animVars, busquedaVars>>

\* InterfazGrafica._limpiar_grafo: Grafo.limpiar
LimpiarGrafo ==
  /\ PonerGrafo(limpiar(GrafoActual))
  /\ ultimo' = Resultado("limpiar", TRUE, "", 0, <<>>, [x |-> 0])
  /\ UNCHANGED <<programa, animVars, busquedaVars>>

\* cargar_desde_json(exportar_a_json()) on the same Grafo object
IdaYVuelta ==
  LET datos_json == exportar_a_json(programa, GrafoActual)
      r == cargar_desde_json(programa, GrafoActual, datos_json)
  IN /\ PonerGrafo(r.g)
     /\ ultimo' = Resultado("ida_y_vuelta", r.exc = "", r.exc, r.cargadas, r.errores,
                            [x |-> 0])
     /\ UNCHANGED <<programa, animVars, busquedaVars>>

NextGrafo ==
  \/ \E eo \in EntradasNodo, ed \in EntradasNodo, ep \in EntradasPeso :
       AgregarArista(eo, ed, ep)
  \/ \E d \in Documentos : CargarJson(d)
  \/ LimpiarGrafo
  \/ IdaYVuelta

SpecGrafo == InitGrafo /\ [][NextGrafo]_vars

(* --------------------- properties of the Grafo ------------------------ *)
\* the weights the peso entry can hold that are numbers, with their values
PesosNumericos == {<<<<"1">>, 1>>, <<<<"-", "5">>, 0 - 5>>}

\* the labels the documents use, with their trimmed upper-case form
EtiquetasEsperadas ==
  {<<<<"a">>, <<"A">>>>, <<<<"b", " ">>, <<"B">>>>, <<<<" ", "B">>, <<"B">>>>,
   <<<<"A">>, <<"A">>>>, <<<<"B">>, <<"B">>>>}

ValorDe(tabla, k) == (CHOOSE par \in tabla : par[1] = k)[2]

Extremos(as) == {as[i][1] : i \in 1..Len(as)} \cup {as[i][2] : i \in 1..Len(as)}

\* C8: agregar_arista with a weight that is not a number returns False and
\* leaves node set, edge list and adjacency map as they were; with a number it
\* returns True, appends exactly one edge at the end of the edge list and of
\* the source's adjacency list, and adds both endpoints to the node set.
C8_AgregarTodoONada ==
  [][ultimo'.op = "agregar" =>
       LET e == ultimo'.entrada
       IN IF \E par \in PesosNumericos : par[1] = e.peso
          THEN LET w == ValorDe(PesosNumericos, e.peso)
                   antes == IF e.origen \in DOMAIN adyacencias
                            THEN adyacencias[e.origen] ELSE <<>>
               IN /\ ultimo'.ret /\ ultimo'.exc = ""
                  /\ aristas' = Append(aristas, <<e.origen, e.destino, w>>)
                  /\ DOMAIN adyacencias' = DOMAIN adyacencias \cup {e.origen}
                  /\ adyacencias'[e.origen] = Append(antes, <<e.destino, w>>)
                  /\ \A k \in DOMAIN adyacencias \ {e.origen} :
                       adyacencias'[k] = adyacencias[k]
                  /\ nodos' = nodos \cup {e.origen, e.destino}
          ELSE /\ ~ultimo'.ret /\ ultimo'.exc = ""
               /\ adyacencias' = adyacencias
               /\ aristas' = aristas
               /\ nodos' = nodos]_vars

\* a rejected weight on a graph that already holds an edge
C8_Testigo ==
  /\ ultimo.op = "agregar" /\ ~ultimo.ret
  /\ Len(aristas) >= 1
  /\ ultimo.entrada.origen \notin DOMAIN adyacencias

\* the edges a document's well-formed records give, in document order
RegistroBueno(r) ==
  /\ {"origen", "destino", "peso"} \subseteq DOMAIN r
  /\ \/ r.peso.tipo = "float"
     \/ r.peso.tipo = "str" /\ \E par \in PesosNumericos : par[1] = r.peso.txt

AristaDeRegistro(r) ==
  <<ValorDe(EtiquetasEsperadas, r.origen), ValorDe(EtiquetasEsperadas, r.destino),
    IF r.peso.tipo = "float" THEN r.peso.val ELSE ValorDe(PesosNumericos, r.peso.txt)>>

AristasEsperadas(datos) ==
  LET buenos == SelectSeq(datos.aristas, RegistroBueno)
  IN [i \in 1..Len(buenos) |-> AristaDeRegistro(buenos[i])]

\* C9: after any sequence of agregar_arista, cargar_desde_json and limpiar the
\* node set is exactly the set of endpoints of the edges in the edge list, and
\* the edge list holds the edges added since the graph was last emptied in
\* insertion order: an insertion appends at the end, a failed one changes
\* nothing, limpiar empties the list, and a load replaces it by the document's
\* well-formed edges in document order.
C9_NodosYOrden ==
  /\ [](nodos = Extremos(aristas))
  /\ [][ /\ ultimo'.op = "agregar" /\ ultimo'.ret =>
              /\ Len(aristas') = Len(aristas) + 1
              /\ SubSeq(aristas', 1, Len(aristas)) = aristas
              /\ aristas'[Len(aristas')][1] = ultimo'.entrada.origen
              /\ aristas'[Len(aristas')][2] = ultimo'.entrada.destino
         /\ ultimo'.op = "agregar" /\ ~ultimo'.ret => aristas' = aristas
         /\ ultimo'.op = "advertencia" => aristas' = aristas
         /\ ultimo'.op = "limpiar" => aristas' = <<>>
         /\ ultimo'.op = "cargar" /\ ultimo'.entrada.tiene_aristas =>
              aristas' = AristasEsperadas(ultimo'.entrada)
         /\ ultimo'.op = "cargar" /\ ~ultimo'.entrada.tiene_aristas =>
              aristas' = <<>> ]_vars

\* a load that skipped a malformed record and kept one edge with two nodes
C9_Testigo ==
  /\ ultimo.op = "cargar"
  /\ Len(ultimo.errores) = 1
  /\ Len(aristas) = 1
  /\ Cardinality(nodos) = 2

PosicionesMalformadas(datos) ==
  SelectSeq([i \in 1..Len(datos.aristas) |-> i],
            LAMBDA i : ~RegistroBueno(datos.aristas[i]))

\* C11: a load of a document that has an aristas list treats each record on
\* its own: the graph ends up with exactly the well-formed records' edges in
\* document order, and a load that returns reports their number and one error
\* entry per malformed record (missing field, weight that is no number), in
\* order, each carrying the record's 1-based position; records after a
\* malformed one are still loaded.
C11_CargaPorRegistro ==
  (ultimo.op = "cargar" /\ ultimo.entrada.tiene_aristas) =>
     /\ aristas = AristasEsperadas(ultimo.entrada)
     /\ ultimo.exc = "" =>
          /\ ultimo.cargadas = Len(AristasEsperadas(ultimo.entrada))
          /\ [j \in 1..Len(ultimo.errores) |-> ultimo.errores[j].indice]
               = PosicionesMalformadas(ultimo.entrada)
          /\ ultimo.cargadas + Len(ultimo.errores) = Len(ultimo.entrada.aristas)

\* one malformed record among three valid ones: 3 edges, 1 error at position 2
C11_Testigo ==
  /\ ultimo.op = "cargar"
  /\ ultimo.entrada = DocumentoEscenarioD
  /\ ultimo.cargadas = 3
  /\ Len(aristas) = 3
  /\ Len(ultimo.errores) = 1
  /\ ultimo.errores[1].indice = 2

\* the step is a load that raised
CargaRechazada == ultimo'.op = "cargar" /\ ultimo'.exc # ""

\* C27: a load that raises does not bring the previous graph back: after a
\* document without the aristas key the graph is empty whatever it held
\* before; a document whose posiciones entry is malformed (informed-search
\* Grafo) leaves exactly the edges of its own well-formed records loaded,
\* although the call reported a failure.
C27_CargaSinRestaurar ==
  [][CargaRechazada =>
       /\ IF ~ultimo'.entrada.tiene_aristas
          THEN aristas' = <<>> /\ adyacencias' = DictVacio
          ELSE /\ programa = "hc"
               /\ ultimo'.entrada.posiciones.hay
               /\ aristas' = AristasEsperadas(ultimo'.entrada)
       /\ nodos' = {aristas'[i][1] : i \in 1..Len(aristas')}
                     \cup {aristas'[i][2] : i \in 1..Len(aristas')}
       /\ ~ultimo'.ret]_vars

\* the informed-search Grafo after a load that raised on a malformed
\* posiciones entry: the document's edge is loaded
C27_Testigo ==
  /\ programa = "hc"
  /\ ultimo.op = "cargar"
  /\ ultimo.exc = "ValueError"
  /\ ultimo.entrada.tiene_aristas
  /\ ultimo.entrada.posiciones = PosicionesMalas
  /\ Len(aristas) = 1

\* C12: a load of a document without the aristas key raises ValueError
\* instead of returning a count and an error list, and the graph holds no
\* edge and no node afterwards.
C12_SinClaveAristas ==
  (ultimo.op = "cargar" /\ ~ultimo.entrada.tiene_aristas) =>
     /\ ultimo.exc = "ValueError"
     /\ ~ultimo.ret
     /\ ultimo.cargadas = 0 /\ ultimo.errores = <<>>
     /\ aristas = <<>> /\ nodos = {} /\ adyacencias = DictVacio

\* the rejected load of a document whose records sit under no aristas key
C12_Testigo ==
  /\ ultimo.op = "cargar"
  /\ ~ultimo.entrada.tiene_aristas
  /\ Len(ultimo.entrada.aristas) = 1
  /\ ultimo.exc = "ValueError"
  /\ aristas = <<>>

\* the labels the user types, with their trimmed upper-case form
EtiquetasTecleadas == {<<<<"a", " ">>, <<"A">>>>, <<<<" ", "B">>, <<"B">>>>}

\* C17 as stated: Grafo.agregar_arista itself trims and upper-cases both
\* endpoints before storing them, so that called with "a " and "A" it leaves
\* the single node "A" and an edge with normalised endpoints.
C17_AgregarNormaliza ==
  \A par \in EtiquetasTecleadas :
    LET r == agregar_arista(GrafoActual, par[1], par[2], PesoTexto(<<"1">>))
    IN /\ r.ret
       /\ r.g.nodos = nodos \cup {par[2]}
       /\ r.g.aristas = Append(aristas, <<par[2], par[2], 1>>)

\* C17 amended: the callers of Grafo.agregar_arista trim and upper-case both
\* endpoints before they call it: after an edge is added through the driver's
\* entry fields, its stored endpoints are the normalised forms of what was
\* typed, and every node and every edge endpoint of the graph, typed or
\* loaded from a document, is a normalised label, so labels that differ only
\* in letter case or surrounding whitespace are one node.
C17_LlamadoresNormalizan ==
  /\ nodos \subseteq {<<"A">>, <<"B">>}
  /\ Extremos(aristas) \subseteq {<<"A">>, <<"B">>}
  /\ DOMAIN adyacencias \subseteq {<<"A">>, <<"B">>}
  /\ (ultimo.op = "agregar" /\ ultimo.ret) =>
       /\ aristas[Len(aristas)][1] = ValorDe(EtiquetasTecleadas, ultimo.entrada.tecleado[1])
       /\ aristas[Len(aristas)][2] = ValorDe(EtiquetasTecleadas, ultimo.entrada.tecleado[2])

\* "a " typed as the source of a second edge, on a graph that already held
\* the node A as the target of its first edge
C17_Testigo ==
  /\ ultimo.op = "agregar" /\ ultimo.ret
  /\ ultimo.entrada.tecleado[1] = <<"a", " ">>
  /\ ultimo.entrada.tecleado[2] = <<" ", "B">>
  /\ Len(aristas) = 2
  /\ aristas[1][2] = <<"A">>
  /\ nodos = {<<"A">>, <<"B">>}

(* ------------------------- trace records ------------------------------ *)
\* an action description: the f-string's template and what it interpolates
Accion(fmt, args, nums) == [fmt |-> fmt, args |-> args, nums |-> nums]

\* a step record of AlgoritmoBFS (the dict appended to pasos_busqueda)
PasoBFS(p, accion, q, vis, actual) ==
  [paso |-> p, accion |-> accion, cola |-> q, visitados |-> vis, nodo_actual |-> actual]

\* the single "record" of the BFS error return: a plain string, not a dict
ErrorBFS == [accion |-> Accion("Error: Uno o ambos nodos no existen en el grafo", <<>>, <<>>)]

\* a step record of AlgoritmoHillClimbing
PasoHC(p, accion, actual, cam, costo, vis) ==
  [paso |-> p, accion |-> accion, nodo_actual |-> actual, camino_actual |-> cam,
   costo_total |-> costo, visitados |-> vis]

\* the error_paso dict of AlgoritmoHillClimbing
ErrorHC ==
  PasoHC(0, Accion("Error: Uno o ambos nodos no existen en el grafo", <<>>, <<>>),
         Nada, <<>>, 0, {})

\* a record extended by one more key
Con(r, k, v) == r @@ (k :> v)

(* --------------------------- AlgoritmoBFS ----------------------------- *)
\* a faulty existence check: looks at the start node only
NodosExistenSoloInicio(ns, i, f) == i \in ns

\* the check "inicio not in nodos or final not in nodos", negated
NodosExisten(ns, i, f) == i \in ns /\ f \in ns

\* a faulty reset: leaves self.visitados as the last search left it
ReiniciarSinVisitados(vis) == vis

\* self.visitados.clear()
ReiniciarVisitados(vis) == {}

\* Grafo.obtener_vecinos on the adjacency map after the defaultdict read
obtener_vecinos(ady, nodo) ==
  LET l == Acceder(ady, nodo)[nodo] IN [i \in 1..Len(l) |-> l[i][1]]

\* a faulty neighbour loop: stops after the first neighbour it enqueued
RECURSIVE ExplorarVecinosSoloPrimero(_, _, _)
ExplorarVecinosSoloPrimero(est, vecinos, actual) ==
  IF vecinos = <<>> \/ est.nuevos # <<>> THEN est
  ELSE LET vecino == Head(vecinos)
       IN IF vecino \in est.visitados
          THEN ExplorarVecinosSoloPrimero(est, Tail(vecinos), actual)
          ELSE ExplorarVecinosSoloPrimero(
                 [cola |-> Append(est.cola, vecino),
                  visitados |-> est.visitados \cup {vecino},
                  padre |-> [k \in DOMAIN est.padre \cup {vecino} |->
                               IF k = vecino THEN Algo(actual) ELSE est.padre[k]],
                  nuevos |-> Append(est.nuevos, vecino)],
                 Tail(vecinos), actual)

\* a faulty neighbour loop: a neighbour still waiting in the queue gets the node
\* being expanded as its new parent
RECURSIVE ExplorarVecinosReasignaPadre(_, _, _)
ExplorarVecinosReasignaPadre(est, vecinos, actual) ==
  IF vecinos = <<>> THEN est
  ELSE LET vecino == Head(vecinos)
       IN IF vecino \in est.visitados
          THEN ExplorarVecinosReasignaPadre(
                 [est EXCEPT !.padre =
                    IF \E i \in DOMAIN est.cola : est.cola[i] = vecino
                    THEN [est.padre EXCEPT ![vecino] = Algo(actual)]
                    ELSE est.padre],
                 Tail(vecinos), actual)
          ELSE ExplorarVecinosReasignaPadre(
                 [cola |-> Append(est.cola, vecino),
                  visitados |-> est.visitados \cup {vecino},
                  padre |-> [k \in DOMAIN est.padre \cup {vecino} |->
                               IF k = vecino THEN Algo(actual) ELSE est.padre[k]],
                  nuevos |-> Append(est.nuevos, vecino)],
                 Tail(vecinos), actual)

\* a faulty neighbour loop: enqueues without marking the neighbour visited
RECURSIVE ExplorarVecinosSinMarcar(_, _, _)
ExplorarVecinosSinMarcar(est, vecinos, actual) ==
  IF vecinos = <<>> THEN est
  ELSE LET vecino == Head(vecinos)
       IN IF vecino \in est.visitados
          THEN ExplorarVecinosSinMarcar(est, Tail(vecinos), actual)
          ELSE ExplorarVecinosSinMarcar(
                 [cola |-> Append(est.cola, vecino),
                  visitados |-> est.visitados,
                  padre |-> [k \in DOMAIN est.padre \cup {vecino} |->
                               IF k = vecino THEN Algo(actual) ELSE est.padre[k]],
                  nuevos |-> Append(est.nuevos, vecino)],
                 Tail(vecinos), actual)

\* the loop "for vecino in vecinos" of buscar_camino
RECURSIVE ExplorarVecinos(_, _, _)
ExplorarVecinos(est, vecinos, actual) ==
  IF vecinos = <<>> THEN est
  ELSE LET vecino == Head(vecinos)
       IN IF vecino \in est.visitados
          THEN ExplorarVecinos(est, Tail(vecinos), actual)
          ELSE ExplorarVecinos(
                 [cola |-> Append(est.cola, vecino),
                  visitados |-> est.visitados \cup {vecino},
                  padre |-> [k \in DOMAIN est.padre \cup {vecino} |->
                               IF k = vecino THEN Algo(actual) ELSE est.padre[k]],
                  nuevos |-> Append(est.nuevos, vecino)],
                 Tail(vecinos), actual)

\* the walk over self.padre of _reconstruir_camino, goal first
RECURSIVE SubirPadres(_, _)
SubirPadres(pad, actual) ==
  IF ~actual.hay THEN <<>>
  ELSE <<actual.val>> \o SubirPadres(pad, pad[actual.val])

Invertir(s) == [i \in 1..Len(s) |-> s[Len(s) + 1 - i]]

\* AlgoritmoBFS._reconstruir_camino
_reconstruir_camino(pad, i, f) == Invertir(SubirPadres(pad, Algo(f)))

(* ----------------------- AlgoritmoHillClimbing ------------------------ *)
\* scores are kept multiplied by Escala, the divisor of the label heuristic
Escala == 100

Abs(x) == IF x < 0 THEN 0 - x ELSE x

RECURSIVE SumaOrd(_)
SumaOrd(s) == IF s = <<>> THEN 0 ELSE Ord(Head(s)) + SumaOrd(Tail(s))

\* math.sqrt on the perfect squares the model's coordinates give
Raiz(n) == CHOOSE r \in 0..n : r * r = n

\* AlgoritmoHillClimbing.calcular_heuristica_distancia_lineal, times Escala
calcular_heuristica_distancia_lineal(nodo, objetivo) ==
  (Abs(SumaOrd(nodo) - SumaOrd(objetivo)) * Escala) \div 100

\* Grafo.calcular_heuristica_euclidiana, times Escala
calcular_heuristica_euclidiana(nodo, objetivo, posiciones) ==
  IF nodo \notin DOMAIN posiciones \/ objetivo \notin DOMAIN posiciones THEN 0
  ELSE LET a == posiciones[nodo]
           b == posiciones[objetivo]
       IN Escala * Raiz((b[1] - a[1]) * (b[1] - a[1]) + (b[2] - a[2]) * (b[2] - a[2]))

\* the heuristic branch "if posiciones_canvas:" (an empty dict is falsy)
Heuristica(vecino, objetivo, pos) ==
  IF DOMAIN pos # {} THEN calcular_heuristica_euclidiana(vecino, objetivo, pos)
  ELSE calcular_heuristica_distancia_lineal(vecino, objetivo)

\* Grafo.obtener_vecinos_con_peso on the adjacency map after the defaultdict read
obtener_vecinos_con_peso(ady, nodo) == Acceder(ady, nodo)[nodo]

\* a faulty candidate test: does not skip visited neighbours
EsCandidatoSiempre(vecino, vis) == TRUE

\* the test "if vecino in visitados: continue", negated
EsCandidato(vecino, vis) == vecino \notin vis

\* a faulty evaluation loop: inserts each entry at the front of the list
RECURSIVE EvaluacionesAlFrente(_, _, _, _, _)
EvaluacionesAlFrente(vecinos, vis, costo, objetivo, pos) ==
  IF vecinos = <<>> THEN <<>>
  ELSE LET vecino == Head(vecinos)[1]
           peso == Head(vecinos)[2]
           resto == EvaluacionesAlFrente(Tail(vecinos), vis, costo, objetivo, pos)
       IN IF vecino \in vis THEN resto
          ELSE LET h == Heuristica(vecino, objetivo, pos)
               IN resto \o <<[vecino |-> vecino, peso |-> peso, heuristica |-> h,
                              evaluacion |-> (costo + peso) * Escala + h]>>

\* the list evaluaciones built by the loop "for vecino, peso in vecinos"
RECURSIVE Evaluaciones(_, _, _, _, _)
Evaluaciones(vecinos, vis, costo, objetivo, pos) ==
  IF vecinos = <<>> THEN <<>>
  ELSE LET vecino == Head(vecinos)[1]
           peso == Head(vecinos)[2]
           resto == Evaluaciones(Tail(vecinos), vis, costo, objetivo, pos)
       IN IF ~EsCandidato(vecino, vis) THEN resto
          ELSE LET h == Heuristica(vecino, objetivo, pos)
               IN <<[vecino |-> vecino, peso |-> peso, heuristica |-> h,
                     evaluacion |-> (costo + peso) * Escala + h]>> \o resto

\* a faulty selection: keeps the candidate with the largest score
RECURSIVE MejorMayor(_, _)
MejorMayor(evs, mejor) ==
  IF evs = <<>> THEN mejor
  ELSE IF ~mejor.hay \/ Head(evs).evaluacion > mejor.val.evaluacion
       THEN MejorMayor(Tail(evs), Algo(Head(evs)))
       ELSE MejorMayor(Tail(evs), mejor)

\* a faulty selection: a later candidate with an equal score replaces the best
RECURSIVE MejorUltimo(_, _)
MejorUltimo(evs, mejor) ==
  IF evs = <<>> THEN mejor
  ELSE IF ~mejor.hay \/ Head(evs).evaluacion <= mejor.val.evaluacion
       THEN MejorUltimo(Tail(evs), Algo(Head(evs)))
       ELSE MejorUltimo(Tail(evs), mejor)

\* a faulty selection: the weight kept is the loop variable's last value,
\* not the weight of the selected edge
RECURSIVE MejorPesoUltimo(_, _)
MejorPesoUltimo(evs, mejor) ==
  IF evs = <<>> THEN mejor
  ELSE LET m == IF ~mejor.hay \/ Head(evs).evaluacion < mejor.val.evaluacion
                THEN Algo(Head(evs)) ELSE mejor
       IN IF Tail(evs) = <<>> THEN Algo([m.val EXCEPT !.peso = Head(evs).peso])
          ELSE MejorPesoUltimo(Tail(evs), m)

\* mejor_vecino / mejor_evaluacion / mejor_peso after the loop: the first
\* candidate whose score is strictly below every earlier one
RECURSIVE Mejor(_, _)
Mejor(evs, mejor) ==
  IF evs = <<>> THEN mejor
  ELSE IF ~mejor.hay \/ Head(evs).evaluacion < mejor.val.evaluacion
       THEN Mejor(Tail(evs), Algo(Head(evs)))
       ELSE Mejor(Tail(evs), mejor)

\* the format {:.1f} of a score, in tenths
Formato1(e) == (e * 10 + Escala \div 2) \div Escala

(* ---------------- the driver's searches (Spec) ------------------------ *)
NodosBase == {<<"A">>, <<"B">>, <<"C">>}
PesosBase == {1, 5}
AristasBase == NodosBase \X NodosBase \X PesosBase

\* canvas positions with integral distances: AB = 3, AC = 4, BC = 5
PosTriangulo ==
  (<<"A">> :> <<0, 0>>) @@ (<<"B">> :> <<3, 0>>) @@ (<<"C">> :> <<0, 4>>)

\* a position map that has no entry for node C
PosParcial == (<<"A">> :> <<0, 0>>) @@ (<<"B">> :> <<3, 0>>)

RECURSIVE GrafoDe(_)
GrafoDe(as) ==
  IF as = <<>> THEN GrafoVacio
  ELSE LET a == as[Len(as)]
       IN agregar_arista(GrafoDe(SubSeq(as, 1, Len(as) - 1)), a[1], a[2], PesoFloat(a[3])).g

\* a graph built by at most MaxAristasBusqueda insertions, no search yet
Init ==
  /\ programa \in {"bfs", "hc"}
  /\ \E as \in SeqsHasta(AristasBase, MaxAristasBusqueda) :
       LET g == GrafoDe(as)
       IN /\ adyacencias = g.adyacencias
          /\ aristas = g.aristas
          /\ nodos = g.nodos
          /\ posiciones_nodos = g.posiciones_nodos
  /\ ultimo = Resultado("init", FALSE, "", 0, <<>>, [x |-> 0])
  /\ pc = "reposo"
  /\ cola = <<>>
  /\ visitados = {}
  /\ padre = DictVacio
  /\ pasos_busqueda = <<>>
  /\ inicio = <<>>
  /\ final = <<>>
  /\ paso = 0
  /\ nodo_actual = Nada
  /\ camino = <<>>
  /\ costo_total = 0
  /\ max_iteraciones = 0
  /\ posiciones_canvas \in IF programa = "hc" THEN {DictVacio, PosTriangulo}
                           ELSE {DictVacio}
  /\ retornos = <<>>
  /\ AnimacionEnReposo

\* the operations of one behaviour: the insertions that built the graph and
\* the searches run on it
PuedeLlamar == pc = "reposo" /\ Len(aristas) + Len(retornos) < MaxOps

\* "return camino, pasos": the caller gets the path and either a fresh list
\* (propio) or the searcher's own list object self.pasos_busqueda; pasos is
\* the list's contents at the moment of the return
Retorno(i, f, cam, propio, pasos) ==
  [inicio |-> i, final |-> f, camino |-> cam, propio |-> propio, pasos |-> pasos]

Retornar(i, f, cam, propio, pasos) ==
  /\ retornos' = Append(retornos, Retorno(i, f, cam, propio, pasos))
  /\ pc' = "reposo"
  /\ paso' = 0
  /\ nodo_actual' = Nada
  /\ camino' = <<>>
  /\ costo_total' = 0
  /\ max_iteraciones' = 0

\* AlgoritmoBFS.buscar_camino up to the while loop
BfsLlamar(i, f) ==
  /\ programa = "bfs"
  /\ PuedeLlamar
  /\ inicio' = i
  /\ final' = f
  /\ UNCHANGED <<programa, animVars, grafoVars, ultimo, posiciones_canvas>>
  /\ IF ~NodosExisten(nodos, i, f)
     THEN /\ cola' = <<>>
          /\ visitados' = ReiniciarVisitados(visitados)
          /\ padre' = DictVacio
          /\ pasos_busqueda' = <<>>
          /\ Retornar(i, f, Nada, TRUE, <<ErrorBFS>>)
     ELSE /\ cola' = <<i>>
          /\ visitados' = ReiniciarVisitados(visitados) \cup {i}
          /\ padre' = (i :> Nada)
          /\ pasos_busqueda' =
               <<PasoBFS(0, Accion("Inicializar", <<i>>, <<>>), <<i>>,
                         ReiniciarVisitados(visitados) \cup {i}, Algo(i))>>
          /\ paso' = 1
          /\ pc' = "bucle"
          /\ UNCHANGED <<nodo_actual, camino, costo_total, max_iteraciones, retornos>>

\* one iteration of "while self.cola"
BfsIterar ==
  /\ programa = "bfs"
  /\ pc = "bucle"
  /\ cola # <<>>
  /\ UNCHANGED <<programa, animVars, aristas, nodos, posiciones_nodos, ultimo, inicio, final,
                 posiciones_canvas>>
  /\ LET actual == Head(cola)
         cola1 == Tail(cola)
         procesar == PasoBFS(paso, Accion("Procesar nodo", <<actual>>, <<>>),
                             cola1, visitados, Algo(actual))
     IN IF actual = final
        THEN LET cam == _reconstruir_camino(padre, inicio, final)
                 meta == Con(PasoBFS(paso + 1, Accion("Meta encontrada", cam, <<>>),
                                     cola1, visitados, Algo(final)),
                             "camino_final", cam)
             IN /\ cola' = cola1
                /\ pasos_busqueda' = pasos_busqueda \o <<procesar, meta>>
                /\ Retornar(inicio, final, Algo(cam), FALSE, pasos_busqueda')
                /\ UNCHANGED <<adyacencias, visitados, padre>>
        ELSE LET vecinos == obtener_vecinos(adyacencias, actual)
                 est == ExplorarVecinos(
                          [cola |-> cola1, visitados |-> visitados, padre |-> padre,
                           nuevos |-> <<>>], vecinos, actual)
                 agregar == Con(PasoBFS(paso + 1,
                                        Accion("Agregar vecinos de", <<actual>> \o est.nuevos, <<>>),
                                        est.cola, est.visitados, Algo(actual)),
                                "vecinos_agregados", est.nuevos)
             IN /\ adyacencias' = Acceder(adyacencias, actual)
                /\ cola' = est.cola
                /\ visitados' = est.visitados
                /\ padre' = est.padre
                /\ pasos_busqueda' =
                     IF est.nuevos # <<>> THEN pasos_busqueda \o <<procesar, agregar>>
                     ELSE Append(pasos_busqueda, procesar)
                /\ paso' = IF est.nuevos # <<>> THEN paso + 2 ELSE paso + 1
                /\ UNCHANGED <<pc, nodo_actual, camino, costo_total, max_iteraciones,
                               retornos>>

\* the exit of "while self.cola" with the queue empty
BfsAgotar ==
  /\ programa = "bfs"
  /\ pc = "bucle"
  /\ cola = <<>>
  /\ pasos_busqueda' =
       Append(pasos_busqueda,
              PasoBFS(paso, Accion("Busqueda terminada: No existe camino", <<>>, <<>>),
                      <<>>, visitados, Nada))
  /\ Retornar(inicio, final, Nada, FALSE, pasos_busqueda')
  /\ UNCHANGED <<programa, animVars, grafoVars, ultimo, cola, visitados, padre, inicio, final,
                 posiciones_canvas>>

\* AlgoritmoHillClimbing.buscar_camino up to the while loop; the driver passes
\* its canvas positions as posiciones_canvas
HcLlamar(i, f) ==
  /\ programa = "hc"
  /\ PuedeLlamar
  /\ inicio' = i
  /\ final' = f
  /\ UNCHANGED <<programa, animVars, grafoVars, ultimo, posiciones_canvas, cola, padre>>
  /\ IF ~NodosExisten(nodos, i, f)
     THEN /\ pasos_busqueda' = <<>>
          /\ visitados' = {}
          /\ Retornar(i, f, Nada, TRUE, <<ErrorHC>>)
     ELSE /\ nodo_actual' = Algo(i)
          /\ camino' = <<i>>
          /\ costo_total' = 0
          /\ visitados' = {i}
          /\ pasos_busqueda' =
               <<PasoHC(0, Accion("Iniciar Hill Climbing desde", <<i>>, <<>>),
                        Algo(i), <<i>>, 0, {i})>>
          /\ paso' = 1
          /\ max_iteraciones' = Cardinality(nodos) * 2
          /\ pc' = "bucle"
          /\ UNCHANGED retornos

\* one iteration of "while nodo_actual != objetivo and paso < max_iteraciones"
HcIterar ==
  /\ programa = "hc"
  /\ pc = "bucle"
  /\ nodo_actual.val # final
  /\ paso < max_iteraciones
  /\ UNCHANGED <<programa, animVars, aristas, nodos, posiciones_nodos, ultimo, inicio, final,
                 posiciones_canvas, cola, padre>>
  /\ adyacencias' = Acceder(adyacencias, nodo_actual.val)
  /\ LET actual == nodo_actual.val
         vecinos == obtener_vecinos_con_peso(adyacencias, actual)
         evaluaciones == Evaluaciones(vecinos, visitados, costo_total, final,
                                      posiciones_canvas)
         mejor == Mejor(evaluaciones, Nada)
         evaluar ==
           Con(PasoHC(paso,
                      Accion("Evaluar vecinos de",
                             <<actual>> \o [k \in 1..Len(evaluaciones) |-> evaluaciones[k].vecino],
                             [k \in 1..Len(evaluaciones) |-> Formato1(evaluaciones[k].evaluacion)]),
                      nodo_actual, camino, costo_total, visitados),
               "evaluaciones", evaluaciones)
     IN IF vecinos = <<>>
        THEN /\ pasos_busqueda' =
                  Append(pasos_busqueda,
                         PasoHC(paso, Accion("Sin vecinos desde", <<actual>>, <<>>),
                                nodo_actual, camino, costo_total, visitados))
             /\ visitados' = {}
             /\ Retornar(inicio, final, Nada, FALSE, pasos_busqueda')
        ELSE IF ~mejor.hay
        THEN /\ pasos_busqueda' =
                  pasos_busqueda \o
                  <<evaluar,
                    PasoHC(paso + 1, Accion("Todos los vecinos visitados", <<>>, <<>>),
                           nodo_actual, camino, costo_total, visitados)>>
             /\ visitados' = {}
             /\ Retornar(inicio, final, Nada, FALSE, pasos_busqueda')
        ELSE LET v == mejor.val.vecino
                 cam == Append(camino, v)
                 costo == costo_total + mejor.val.peso
                 vis == visitados \cup {v}
                 mover ==
                   Con(PasoHC(paso + 1,
                              Accion(IF v = final THEN "Moverse a - OBJETIVO ALCANZADO"
                                     ELSE "Moverse a",
                                     <<v>>, <<Formato1(mejor.val.evaluacion)>>),
                              Algo(v), cam, costo, vis),
                       "camino_final", IF v = final THEN Algo(cam) ELSE Nada)
             IN /\ nodo_actual' = Algo(v)
                /\ camino' = cam
                /\ costo_total' = costo
                /\ visitados' = vis
                /\ pasos_busqueda' = pasos_busqueda \o <<evaluar, mover>>
                /\ paso' = paso + 2
                /\ UNCHANGED <<pc, max_iteraciones, retornos>>

\* the exit of the while loop: the goal was reached or the cap was hit
HcSalir ==
  /\ programa = "hc"
  /\ pc = "bucle"
  /\ ~(nodo_actual.val # final /\ paso < max_iteraciones)
  /\ UNCHANGED <<programa, animVars, grafoVars, ultimo, inicio, final, posiciones_canvas, cola,
                 padre>>
  /\ visitados' = {}
  /\ IF nodo_actual.val = final
     THEN /\ pasos_busqueda' = pasos_busqueda
          /\ Retornar(inicio, final, Algo(camino), FALSE, pasos_busqueda')
     ELSE /\ pasos_busqueda' =
               Append(pasos_busqueda,
                      PasoHC(paso, Accion("Maximo de iteraciones alcanzado", <<>>, <<>>),
                             nodo_actual, camino, costo_total, visitados))
          /\ Retornar(inicio, final, Nada, FALSE, pasos_busqueda')

\* the identifiers the driver can ask for (after strip and upper)
Next ==
  \/ \E i \in NodosBase, f \in NodosBase : BfsLlamar(i, f)
  \/ BfsIterar
  \/ BfsAgotar
  \/ \E i \in NodosBase, f \in NodosBase : HcLlamar(i, f)
  \/ HcIterar
  \/ HcSalir

Spec == Init /\ [][Next]_vars


(* --------------------- properties of the searches --------------------- *)
Rango(sq) == {sq[k] : k \in 1..Len(sq)}

SinRepetidos(sq) == \A j, k \in 1..Len(sq) : sq[j] = sq[k] => j = k

\* the nodes one edge away from a node of S
Sucesores(S) == {a[2] : a \in {b \in Rango(aristas) : b[1] \in S}}

\* the least number of edges of a walk from a node of S to f, counting from k;
\* -1 when no walk of at most |nodos| edges exists
RECURSIVE MinSaltos(_, _, _)
MinSaltos(S, f, k) ==
  IF f \in S THEN k
  ELSE IF k >= Cardinality(nodos) THEN 0 - 1
  ELSE MinSaltos(Sucesores(S), f, k + 1)

\* cam is a path of the graph from i to f
EsCamino(cam, i, f) ==
  /\ Len(cam) >= 1
  /\ cam[1] = i
  /\ cam[Len(cam)] = f
  /\ \A k \in 1..(Len(cam) - 1) :
       \E a \in Rango(aristas) : a[1] = cam[k] /\ a[2] = cam[k + 1]

\* C1: whenever goal is reachable from start (both known nodes), the path
\* AlgoritmoBFS.buscar_camino returns is a path from start to goal whose
\* number of edges is the least over all start-to-goal paths of the graph.
C1_BfsMinimoSaltos ==
  programa = "bfs" =>
    \A k \in 1..Len(retornos) :
      LET r == retornos[k]
          d == MinSaltos({r.inicio}, r.final, 0)
      IN (r.inicio \in nodos /\ r.final \in nodos /\ d >= 0) =>
           /\ r.camino.hay
           /\ EsCamino(r.camino.val, r.inicio, r.final)
           /\ Len(r.camino.val) - 1 = d

\* edges A->B(1), B->C(1), A->C(5) in that order give [A, C]
C1_Testigo ==
  /\ programa = "bfs"
  /\ aristas = <<<<<<"A">>, <<"B">>, 1>>, <<<<"B">>, <<"C">>, 1>>, <<<<"A">>, <<"C">>, 5>>>>
  /\ Len(retornos) = 1
  /\ retornos[1].camino = Algo(<<<<"A">>, <<"C">>>>)

\* the nodes appended to the queue during the search a trace records, in
\* order: the start node, then every batch of newly enqueued neighbours
RECURSIVE Encolados(_)
Encolados(traza) ==
  IF traza = <<>> THEN <<>>
  ELSE LET r == traza[Len(traza)]
           antes == Encolados(SubSeq(traza, 1, Len(traza) - 1))
       IN IF "vecinos_agregados" \in DOMAIN r THEN antes \o r.vecinos_agregados
          ELSE IF r.paso = 0 THEN antes \o r.cola
          ELSE antes

\* C2: during one breadth-first search no node is appended to the queue more
\* than once, and along the trace the size of the recorded visited set never
\* decreases and never exceeds the number of graph nodes.
C2_BfsEncolaUnaVez ==
  programa = "bfs" =>
    /\ SinRepetidos(Encolados(pasos_busqueda))
    /\ \A j, k \in 1..Len(pasos_busqueda) :
         j <= k => Cardinality(pasos_busqueda[j].visitados)
                     <= Cardinality(pasos_busqueda[k].visitados)
    /\ \A k \in 1..Len(pasos_busqueda) :
         Cardinality(pasos_busqueda[k].visitados) <= Cardinality(nodos)

\* a finished search over parallel edges and a cycle that enqueued two nodes
C2_Testigo ==
  /\ programa = "bfs"
  /\ pc = "reposo"
  /\ Len(aristas) = 3
  /\ aristas[1] = aristas[2]
  /\ aristas[3][1] = aristas[1][2] /\ aristas[3][2] = aristas[1][1]
  /\ aristas[1][1] # aristas[1][2]
  /\ Len(Encolados(pasos_busqueda)) = 2

EsRetornoDeError(r) ==
  /\ ~r.camino.hay
  /\ r.propio
  /\ Len(r.pasos) = 1
  /\ r.pasos[1].accion.fmt = "Error: Uno o ambos nodos no existen en el grafo"

\* C3: whenever start or goal is not in the node set, both buscar_camino
\* methods return None and a trace of exactly one record describing the error,
\* and no node is explored: queue, visited set, parents and the searcher's own
\* step list are empty when the call returns.
C3_NodoDesconocido ==
  /\ \A k \in 1..Len(retornos) :
       (retornos[k].inicio \notin nodos \/ retornos[k].final \notin nodos) =>
          EsRetornoDeError(retornos[k])
  /\ (/\ pc = "reposo"
      /\ retornos # <<>>
      /\ (retornos[Len(retornos)].inicio \notin nodos
          \/ retornos[Len(retornos)].final \notin nodos)) =>
       /\ cola = <<>>
       /\ visitados = {}
       /\ padre = DictVacio
       /\ pasos_busqueda = <<>>

\* a known start with an unknown goal, after a search that did explore
C3_Testigo ==
  /\ Len(retornos) = 2
  /\ retornos[1].camino.hay
  /\ retornos[2].inicio \in nodos
  /\ retornos[2].final \notin nodos
  /\ pc = "reposo"

\* C4: at every step of AlgoritmoHillClimbing.buscar_camino the accumulated
\* path has pairwise distinct nodes and its node set is the visited set, in
\* the running call, in every step record, and in every returned path.
C4_HcSinRevisitar ==
  programa = "hc" =>
    /\ pc = "bucle" => SinRepetidos(camino) /\ Rango(camino) = visitados
    /\ \A k \in 1..Len(pasos_busqueda) :
         /\ SinRepetidos(pasos_busqueda[k].camino_actual)
         /\ Rango(pasos_busqueda[k].camino_actual) = pasos_busqueda[k].visitados
    /\ \A k \in 1..Len(retornos) :
         retornos[k].camino.hay => SinRepetidos(retornos[k].camino.val)

\* a returned path through all three nodes of a graph whose first edge is a
\* self-loop on the start or an edge from the second node back to the start
C4_Testigo ==
  /\ programa = "hc"
  /\ Len(retornos) = 1
  /\ retornos[1].camino.hay
  /\ Len(retornos[1].camino.val) = 3
  /\ Len(aristas) = 3
  /\ aristas[1][2] = retornos[1].inicio
  /\ aristas[1][1] \in {retornos[1].camino.val[1], retornos[1].camino.val[2]}

AccionesDe(pasos) == [k \in 1..Len(pasos) |-> pasos[k].accion]

\* C5: two calls on the same searcher with the same graph and the same
\* (start, goal) return the same path and the same sequence of action
\* descriptions, whatever searches ran before them.
C5_Determinismo ==
  \A j, k \in 1..Len(retornos) :
    (retornos[j].inicio = retornos[k].inicio /\ retornos[j].final = retornos[k].final) =>
      /\ retornos[j].camino = retornos[k].camino
      /\ AccionesDe(retornos[j].pasos) = AccionesDe(retornos[k].pasos)

\* the same successful search before and after a different search
C5_Testigo ==
  /\ Len(retornos) = 3
  /\ retornos[1].inicio = retornos[3].inicio
  /\ retornos[1].final = retornos[3].final
  /\ retornos[1].camino.hay
  /\ Len(retornos[1].camino.val) = 2
  /\ retornos[2].inicio # retornos[1].inicio
  /\ retornos[2].inicio \in nodos /\ retornos[2].final \in nodos

\* the trace a caller holds, as it reads now
TrazaDe(r) == IF r.propio THEN r.pasos ELSE pasos_busqueda

\* C6: no later operation on the searcher changes the length or the records
\* of the trace an earlier call returned.
C6_TrazaEscrituraUnica ==
  \A k \in 1..Len(retornos) : TrazaDe(retornos[k]) = retornos[k].pasos

\* C7: a search call leaves the Graph unchanged: node set, edge list and
\* adjacency map (its keys and every list) are the same after every step of a
\* search as before it.
C7_GrafoSinCambios ==
  [][/\ nodos' = nodos
     /\ aristas' = aristas
     /\ adyacencias' = adyacencias]_vars

\* the graph of scenario B: A->B(1), B->C(1), A->C(5), added in that order
AristasEscenarioB ==
  <<<<<<"A">>, <<"B">>, 1>>, <<<<"B">>, <<"C">>, 1>>, <<<<"A">>, <<"C">>, 5>>>>

\* the returns of the informed search from A to C on scenario B's graph with
\* no position map
RetornosEscenarioB ==
  IF programa = "hc" /\ aristas = AristasEscenarioB /\ posiciones_canvas = DictVacio
  THEN {k \in 1..Len(retornos) :
          retornos[k].inicio = <<"A">> /\ retornos[k].final = <<"C">>}
  ELSE {}

\* the candidates listed by the first "evaluate neighbours" record of a trace
PrimerosEvaluados(pasos) ==
  [j \in 1..Len(pasos[2].evaluaciones) |-> pasos[2].evaluaciones[j].vecino]

\* C13 as stated: on scenario B's graph the informed search from A to C with
\* no position map evaluates B and C and moves directly to C, returning
\* [A, C] with cumulative cost 5.
C13_EscenarioB_Directo ==
  \A k \in RetornosEscenarioB :
    LET r == retornos[k]
    IN /\ PrimerosEvaluados(r.pasos) = <<<<"B">>, <<"C">>>>
       /\ r.camino = Algo(<<<<"A">>, <<"C">>>>)
       /\ r.pasos[Len(r.pasos)].costo_total = 5

\* C13 amended: on scenario B's graph the informed search from A to C with no
\* position map evaluates both neighbours B (score 1.01) and C (score 5.0) of
\* A, moves to B, whose score is the smaller one, and from B to C, returning
\* [A, B, C] with cumulative cost 2.
C13_EscenarioB ==
  \A k \in RetornosEscenarioB :
    LET r == retornos[k]
    IN /\ PrimerosEvaluados(r.pasos) = <<<<"B">>, <<"C">>>>
       /\ r.pasos[2].evaluaciones[1].evaluacion = 101
       /\ r.pasos[2].evaluaciones[2].evaluacion = 500
       /\ r.pasos[3].nodo_actual = Algo(<<"B">>)
       /\ r.camino = Algo(<<<<"A">>, <<"B">>, <<"C">>>>)
       /\ r.pasos[Len(r.pasos)].costo_total = 2

\* the informed search from A to C on scenario B's graph has returned
C13_Testigo ==
  /\ RetornosEscenarioB # {}
  /\ retornos[1].camino.hay
  /\ Len(retornos[1].pasos) = 5

\* the nodes a walk of the graph reaches from a node of S
RECURSIVE Alcanzables(_)
Alcanzables(S) ==
  IF Sucesores(S) \subseteq S THEN S ELSE Alcanzables(S \cup Sucesores(S))

\* C14: for known start and goal AlgoritmoBFS.buscar_camino returns a path
\* exactly when the goal is reachable from the start; when it is not, the
\* path is absent and the last trace record is the "no path exists" record,
\* with an empty queue and a visited set equal to the set of nodes reachable
\* from the start.
C14_BfsSinCamino ==
  programa = "bfs" =>
    \A k \in 1..Len(retornos) :
      LET r == retornos[k]
          fin == r.pasos[Len(r.pasos)]
      IN (r.inicio \in nodos /\ r.final \in nodos) =>
           /\ r.camino.hay <=> r.final \in Alcanzables({r.inicio})
           /\ ~r.camino.hay =>
                /\ fin.accion.fmt = "Busqueda terminada: No existe camino"
                /\ fin.cola = <<>>
                /\ fin.visitados = Alcanzables({r.inicio})

\* a search that visited a second node and still found no path to a known goal
C14_Testigo ==
  /\ programa = "bfs"
  /\ Len(retornos) = 1
  /\ retornos[1].final \in nodos
  /\ ~retornos[1].camino.hay
  /\ Cardinality(Alcanzables({retornos[1].inicio})) >= 2
  /\ Len(retornos[1].pasos) >= 4

\* a step of a search in progress
PasoDeBusqueda == BfsIterar \/ BfsAgotar \/ HcIterar \/ HcSalir

\* what a search still has to do: the nodes not yet visited plus the queue
Medida == Cardinality(nodos \ visitados) + Len(cola)

\* C15: every call of buscar_camino, of either search, comes to its return on
\* every graph (cycles, self-loops and parallel edges included) and for every
\* start and goal: the one step a search in progress takes next can be taken,
\* and it either returns or strictly lowers a measure that never goes below
\* zero, so no search runs for ever.
C15_Terminacion ==
  pc = "bucle" =>
    ENABLED (PasoDeBusqueda
             /\ (pc' = "reposo" \/ (Medida' < Medida /\ Medida' >= 0)))

\* a search that has returned after at least three more records on a graph
\* with a cycle through its start node (there and back, or two self-loops)
C15_Testigo ==
  /\ Len(retornos) = 1
  /\ pc = "reposo"
  /\ Len(retornos[1].pasos) >= 4
  /\ \E j, k \in 1..Len(aristas) :
       /\ j # k
       /\ aristas[j][1] = retornos[1].inicio
       /\ aristas[k][2] = retornos[1].inicio
       /\ aristas[j][2] = aristas[k][1]

\* the targets of the edges that leave node n
Salientes(n) == {a[2] : a \in {b \in Rango(aristas) : b[1] = n}}

\* the informed search stands on a node that is not the goal and has no
\* unvisited outgoing neighbour
SinSalida ==
  /\ programa = "hc"
  /\ pc = "bucle"
  /\ nodo_actual.val # final
  /\ Salientes(nodo_actual.val) \subseteq visitados

\* the return that ends a step: absent path, last record of the given
\* description standing on the node the search was on
FallaCon(fmt) ==
  LET r == retornos'[Len(retornos')]
      fin == r.pasos[Len(r.pasos)]
  IN /\ pc' = "reposo"
     /\ Len(retornos') = Len(retornos) + 1
     /\ ~r.camino.hay
     /\ fin.accion.fmt = fmt
     /\ fin.nodo_actual = nodo_actual

\* C16 as stated: a dead end of the informed search is reported by one and
\* the same failure record in both sub-cases, the "no unvisited neighbours"
\* record the search writes when every target is already visited.
C16_SinSalidaUnMensaje ==
  [][SinSalida => FallaCon("Todos los vecinos visitados")]_vars

\* C16 amended: whenever the informed search stands on a node that is not the
\* goal and has no unvisited outgoing neighbour, it returns an absent path
\* and the last trace record is a failure record on that node: "Sin vecinos
\* desde <node>" when the node has no outgoing edge at all, "Todos los vecinos
\* visitados" (after an "evaluate neighbours" record with no candidate) when
\* every target is visited; neither is the description of the "no path
\* exists" or of the "iteration cap" record.
C16_SinSalida ==
  [][SinSalida =>
       IF Salientes(nodo_actual.val) = {}
       THEN FallaCon("Sin vecinos desde")
       ELSE /\ FallaCon("Todos los vecinos visitados")
            /\ LET ps == retornos'[Len(retornos')].pasos
               IN /\ ps[Len(ps) - 1].accion.fmt = "Evaluar vecinos de"
                  /\ ps[Len(ps) - 1].evaluaciones = <<>>]_vars

\* a search that moved once and then failed on a node whose only targets are
\* visited, on a graph that also has a node with no outgoing edge
C16_Testigo ==
  /\ programa = "hc"
  /\ Len(retornos) = 1
  /\ ~retornos[1].camino.hay
  /\ retornos[1].final \in nodos
  /\ retornos[1].pasos[Len(retornos[1].pasos)].accion.fmt = "Todos los vecinos visitados"
  /\ Len(retornos[1].pasos) = 5
  /\ \E n \in nodos : Salientes(n) = {}

\* the outgoing edges (target, weight) of the node the informed search is on,
\* in adjacency insertion order
VecinosActual ==
  IF nodo_actual.val \in DOMAIN adyacencias THEN adyacencias[nodo_actual.val]
  ELSE <<>>

\* the positions of the outgoing edges whose target is not visited yet
Candidatos == {k \in 1..Len(VecinosActual) : VecinosActual[k][1] \notin visitados}

\* (cost so far + weight) + heuristic(target, goal) of the k-th outgoing edge
PuntajeDe(k) ==
  (costo_total + VecinosActual[k][2]) * Escala
  + Heuristica(VecinosActual[k][1], final, posiciones_canvas)

\* the informed search is about to run an iteration that has a candidate
HcElige ==
  /\ programa = "hc"
  /\ pc = "bucle"
  /\ nodo_actual.val # final
  /\ paso < max_iteraciones
  /\ Candidatos # {}

\* C20: at each iteration of the informed search the score recorded for every
\* unvisited outgoing edge of the current node is (cost so far + weight) +
\* heuristic(target, goal); the search moves along the edge with the smallest
\* score, the first one in adjacency order among equal scores, and the cost
\* so far grows by the weight of that very edge.
C20_MejorPuntaje ==
  [][HcElige =>
       LET k == CHOOSE c \in Candidatos :
                  /\ \A j \in Candidatos : PuntajeDe(c) <= PuntajeDe(j)
                  /\ \A j \in Candidatos : j < c => PuntajeDe(c) < PuntajeDe(j)
           ev == pasos_busqueda'[Len(pasos_busqueda) + 1].evaluaciones
       IN /\ Len(ev) = Cardinality(Candidatos)
          /\ \A j \in Candidatos :
               LET i == Cardinality({c \in Candidatos : c <= j})
               IN /\ ev[i].vecino = VecinosActual[j][1]
                  /\ ev[i].peso = VecinosActual[j][2]
                  /\ ev[i].evaluacion = PuntajeDe(j)
          /\ nodo_actual' = Algo(VecinosActual[k][1])
          /\ costo_total' = costo_total + VecinosActual[k][2]
          /\ camino' = Append(camino, VecinosActual[k][1])]_vars

\* the informed search has just moved after an evaluation in which two
\* different targets had the same score, and it took the first of them
C20_Testigo ==
  /\ programa = "hc"
  /\ pc = "bucle"
  /\ Len(pasos_busqueda) >= 3
  /\ LET n == Len(pasos_busqueda)
         ev == pasos_busqueda[n - 1]
     IN /\ ev.accion.fmt = "Evaluar vecinos de"
        /\ Len(ev.evaluaciones) = 2
        /\ ev.evaluaciones[1].evaluacion = ev.evaluaciones[2].evaluacion
        /\ ev.evaluaciones[1].vecino # ev.evaluaciones[2].vecino
        /\ pasos_busqueda[n].nodo_actual = Algo(ev.evaluaciones[1].vecino)
        /\ nodo_actual = Algo(ev.evaluaciones[1].vecino)

(* ------- informed searches with a partial position map (SpecParcial) ------- *)
\* a graph built by at most MaxAristasParcial insertions, and an informed
\* searcher that is handed a position map without node C
InitParcial ==
  /\ programa = "hc"
  /\ \E as \in SeqsHasta(AristasBase, MaxAristasParcial) :
       LET g == GrafoDe(as)
       IN /\ adyacencias = g.adyacencias
          /\ aristas = g.aristas
          /\ nodos = g.nodos
          /\ posiciones_nodos = g.posiciones_nodos
  /\ ultimo = Resultado("init", FALSE, "", 0, <<>>, [x |-> 0])
  /\ pc = "reposo"
  /\ cola = <<>>
  /\ visitados = {}
  /\ padre = DictVacio
  /\ pasos_busqueda = <<>>
  /\ inicio = <<>>
  /\ final = <<>>
  /\ paso = 0
  /\ nodo_actual = Nada
  /\ camino = <<>>
  /\ costo_total = 0
  /\ max_iteraciones = 0
  /\ posiciones_canvas = PosParcial
  /\ retornos = <<>>
  /\ AnimacionEnReposo

NextParcial ==
  \/ \E i \in NodosBase, f \in NodosBase : HcLlamar(i, f)
  \/ HcIterar
  \/ HcSalir

SpecParcial == InitParcial /\ [][NextParcial]_vars

\* the heuristic values recorded by the informed search's trace so far agree
\* with the function h(candidate, goal)
HeuristicasSegun(h(_, _)) ==
  \A i \in 1..Len(pasos_busqueda) :
    pasos_busqueda[i].accion.fmt = "Evaluar vecinos de" =>
      \A j \in 1..Len(pasos_busqueda[i].evaluaciones) :
        LET e == pasos_busqueda[i].evaluaciones[j]
        IN e.heuristica = h(e.vecino, final)

\* the label-derived value |sum of codes - sum of codes| / 100, times Escala
ValorEtiquetas(n, o) == (Abs(SumaOrd(n) - SumaOrd(o)) * Escala) \div 100

\* the Euclidean distance between two entries of the position map, times Escala
DistanciaMapa(n, o) ==
  LET a == posiciones_canvas[n]
      b == posiciones_canvas[o]
  IN Escala * Raiz((b[1] - a[1]) * (b[1] - a[1]) + (b[2] - a[2]) * (b[2] - a[2]))

\* the heuristic as C21 states it
HeuristicaPorCaso(n, o) ==
  IF n \in DOMAIN posiciones_canvas /\ o \in DOMAIN posiciones_canvas
  THEN DistanciaMapa(n, o)
  ELSE ValorEtiquetas(n, o)

\* C21 as stated: the heuristic of a candidate is the Euclidean distance only
\* when the position map has both the candidate and the goal, and the
\* label-derived value in every other case, a map missing one of them included.
C21_HeuristicaPorCaso == HeuristicasSegun(HeuristicaPorCaso)

\* the returns of informed searches whose start and goal are nodes of the
\* graph and that found no path
FallosHc ==
  IF programa # "hc" THEN {}
  ELSE {k \in 1..Len(retornos) :
          /\ retornos[k].inicio \in nodos
          /\ retornos[k].final \in nodos
          /\ ~retornos[k].camino.hay}

\* the description of the last record of the k-th returned trace
UltimaAccion(k) == retornos[k].pasos[Len(retornos[k].pasos)].accion.fmt

\* C26: the informed search never ends with the iteration-cap record: while
\* the loop runs the step counter is 2 * (visited nodes) - 1, below the cap
\* 2 * |nodes| unless the goal was just reached, and every failed search with
\* known start and goal ends with a record of "no unvisited neighbour" kind.
C26_TopeInalcanzable ==
  /\ (programa = "hc" /\ pc = "bucle") =>
       /\ max_iteraciones = 2 * Cardinality(nodos)
       /\ paso = 2 * Cardinality(visitados) - 1
       /\ visitados \subseteq nodos
       /\ (nodo_actual.val # final => paso < max_iteraciones)
  /\ \A k \in FallosHc :
       /\ UltimaAccion(k) # "Maximo de iteraciones alcanzado"
       /\ UltimaAccion(k) \in {"Sin vecinos desde", "Todos los vecinos visitados"}

\* an informed search with known start and goal failed after it had moved
C26_Testigo ==
  /\ FallosHc # {}
  /\ \E k \in FallosHc : Len(retornos[k].pasos) >= 5

\* the position of the outgoing edge the iteration moves along: the first
\* candidate of smallest score
Elegido ==
  CHOOSE c \in Candidatos :
    /\ \A j \in Candidatos : PuntajeDe(c) <= PuntajeDe(j)
    /\ \A j \in Candidatos : j < c => PuntajeDe(c) < PuntajeDe(j)

\* the positions of the candidates, in adjacency order
OrdenCandidatos ==
  SelectSeq([k \in 1..Len(VecinosActual) |-> k], LAMBDA k : k \in Candidatos)

\* the informed search has reached the goal by a move and is about to return
HcLlego ==
  /\ programa = "hc"
  /\ pc = "bucle"
  /\ nodo_actual.val = final
  /\ Len(pasos_busqueda) > 1

\* C23: an iteration of the informed search that selects a candidate appends
\* exactly two records: an "evaluate neighbours" record that lists every
\* unvisited outgoing edge of the current node in adjacency order with its
\* weight, heuristic and combined score, and right after it a "move" record
\* on the chosen neighbour whose cost is the previous cost plus the chosen
\* edge's weight; the move record carries the completed path exactly when the
\* chosen neighbour is the goal, and that path is the path then returned.
C23_EvaluarYMover ==
  [][/\ HcElige =>
          LET n == Len(pasos_busqueda)
              ev == pasos_busqueda'[n + 1]
              mv == pasos_busqueda'[n + 2]
              v == VecinosActual[Elegido][1]
          IN /\ Len(pasos_busqueda') = n + 2
             /\ SubSeq(pasos_busqueda', 1, n) = pasos_busqueda
             /\ ev.accion.fmt = "Evaluar vecinos de"
             /\ ev.paso = paso
             /\ ev.nodo_actual = nodo_actual
             /\ ev.costo_total = costo_total
             /\ ev.evaluaciones =
                  [i \in 1..Len(OrdenCandidatos) |->
                     LET k == OrdenCandidatos[i]
                         h == Heuristica(VecinosActual[k][1], final, posiciones_canvas)
                     IN [vecino |-> VecinosActual[k][1],
                         peso |-> VecinosActual[k][2],
                         heuristica |-> h,
                         evaluacion |-> (costo_total + VecinosActual[k][2]) * Escala + h]]
             /\ mv.accion.fmt \in {"Moverse a", "Moverse a - OBJETIVO ALCANZADO"}
             /\ mv.paso = paso + 1
             /\ mv.nodo_actual = Algo(v)
             /\ mv.costo_total = costo_total + VecinosActual[Elegido][2]
             /\ mv.camino_actual = Append(camino, v)
             /\ mv.camino_final.hay <=> v = final
             /\ mv.camino_final.hay => mv.camino_final.val = Append(camino, v)
     /\ HcLlego =>
          LET mv == pasos_busqueda[Len(pasos_busqueda)]
              r == retornos'[Len(retornos')]
          IN /\ Len(retornos') = Len(retornos) + 1
             /\ mv.camino_final.hay
             /\ r.camino = mv.camino_final
             /\ r.pasos = pasos_busqueda]_vars

\* an informed search returned a path after two iterations, the first of
\* which evaluated two candidates
C23_Testigo ==
  /\ programa = "hc"
  /\ Len(retornos) >= 1
  /\ retornos[1].camino.hay
  /\ Len(retornos[1].pasos) = 5
  /\ Len(retornos[1].pasos[2].evaluaciones) = 2
  /\ retornos[1].pasos[5].camino_final = retornos[1].camino

\* the returns of breadth-first searches whose start and goal are nodes of
\* the graph
RetornosBfs ==
  IF programa # "bfs" THEN {}
  ELSE {k \in 1..Len(retornos) :
          retornos[k].inicio \in nodos /\ retornos[k].final \in nodos}

\* the neighbours in the list that are not in V, each once, in list order
RECURSIVE SinVisitar(_, _)
SinVisitar(vecinos, V) ==
  IF vecinos = <<>> THEN <<>>
  ELSE IF Head(vecinos) \in V THEN SinVisitar(Tail(vecinos), V)
       ELSE <<Head(vecinos)>> \o SinVisitar(Tail(vecinos), V \cup {Head(vecinos)})

\* the targets of the edges that leave n, in insertion order
DestinosDe(n) ==
  LET l == SelectSeq(aristas, LAMBDA a : a[1] = n)
  IN [i \in 1..Len(l) |-> l[i][2]]

\* the nodes of the "processing" records of a trace, in trace order
RECURSIVE Procesados(_)
Procesados(ps) ==
  IF ps = <<>> THEN <<>>
  ELSE IF Head(ps).accion.fmt = "Procesar nodo"
       THEN <<Head(ps).nodo_actual.val>> \o Procesados(Tail(ps))
       ELSE Procesados(Tail(ps))

\* the shape of one breadth-first trace ps returned with the path cam for
\* the goal f
TrazaBfsBienFormada(ps, cam, f) ==
  LET n == Len(ps)
      fmt(i) == ps[i].accion.fmt
  IN /\ n >= 3
     /\ \A i \in 1..n : ps[i].paso = i - 1
     /\ \A i \in 1..n : fmt(i) = "Inicializar" <=> i = 1
     /\ \A i \in 1..n :
          fmt(i) \in {"Meta encontrada", "Busqueda terminada: No existe camino"}
            <=> i = n
     /\ \A i \in 2..(n - 1) : fmt(i) \in {"Procesar nodo", "Agregar vecinos de"}
     /\ fmt(2) = "Procesar nodo"
     /\ LET pr == Procesados(ps)
        IN SubSeq(Encolados(ps), 1, Len(pr)) = pr
     /\ \A i \in 2..(n - 1) :
          fmt(i) = "Procesar nodo" =>
            LET x == ps[i].nodo_actual.val
                nuevos == SinVisitar(DestinosDe(x), ps[i].visitados)
            IN IF x = f
               THEN /\ i = n - 1
                    /\ fmt(n) = "Meta encontrada"
               ELSE IF nuevos = <<>> THEN fmt(i + 1) # "Agregar vecinos de"
               ELSE /\ fmt(i + 1) = "Agregar vecinos de"
                    /\ ps[i + 1].vecinos_agregados = nuevos
                    /\ ps[i + 1].nodo_actual = ps[i].nodo_actual
     /\ \A i \in 2..(n - 1) :
          fmt(i) = "Agregar vecinos de" =>
            /\ fmt(i - 1) = "Procesar nodo"
            /\ ps[i].vecinos_agregados # <<>>
     /\ IF fmt(n) = "Meta encontrada"
        THEN /\ cam.hay
             /\ ps[n].camino_final = cam.val
             /\ fmt(n - 1) = "Procesar nodo"
             /\ ps[n - 1].nodo_actual = Algo(f)
        ELSE ~cam.hay

\* C24: a breadth-first trace for known start and goal is one initialization
\* record, then one "processing" record per dequeued node in FIFO order, each
\* followed by one "add neighbours" record exactly when a neighbour was newly
\* enqueued (the new neighbours in adjacency order, never an empty batch),
\* and one termination record last: "goal found" with the returned path or
\* "no path exists"; the step indices are 0, 1, 2, ...
C24_TrazaBfs ==
  \A k \in RetornosBfs :
    TrazaBfsBienFormada(retornos[k].pasos, retornos[k].camino, retornos[k].final)

\* a breadth-first search found its goal after a node that added neighbours
\* and a node that added none
C24_Testigo ==
  /\ RetornosBfs # {}
  /\ \E k \in RetornosBfs :
       LET ps == retornos[k].pasos
       IN /\ retornos[k].camino.hay
          /\ \E i \in 2..(Len(ps) - 2) :
               /\ ps[i].accion.fmt = "Procesar nodo"
               /\ ps[i + 1].accion.fmt = "Procesar nodo"
          /\ \E i \in 2..Len(ps) : ps[i].accion.fmt = "Agregar vecinos de"

\* the weight of the entry an "evaluate neighbours" record's move goes along:
\* the first entry of smallest score
PesoElegido(evs) ==
  LET k == CHOOSE c \in 1..Len(evs) :
             /\ \A j \in 1..Len(evs) : evs[c].evaluacion <= evs[j].evaluacion
             /\ \A j \in 1..(c - 1) : evs[c].evaluacion < evs[j].evaluacion
  IN evs[k].peso

\* the weights of the edges chosen along an informed-search trace, summed
RECURSIVE SumaElegidos(_)
SumaElegidos(ps) ==
  IF ps = <<>> THEN 0
  ELSE (IF Head(ps).accion.fmt = "Evaluar vecinos de" /\ Head(ps).evaluaciones # <<>>
        THEN PesoElegido(Head(ps).evaluaciones) ELSE 0)
       + SumaElegidos(Tail(ps))

\* C28: a path returned by the informed search starts at the start, ends at
\* the goal, each consecutive pair of its nodes is joined by an edge of the
\* graph in that direction (the edge the iteration chose), and the cost of
\* the final move record is the sum of the chosen edges' weights; a search
\* whose start is its goal returns the one-node path, in both strategies,
\* with no neighbour expanded.
C28_CaminoValido ==
  \A k \in 1..Len(retornos) :
    LET r == retornos[k]
        ps == r.pasos
        cam == r.camino.val
    IN /\ (programa = "hc" /\ r.camino.hay) =>
            /\ cam[1] = r.inicio
            /\ cam[Len(cam)] = r.final
            /\ Len(ps) = 2 * Len(cam) - 1
            /\ \A i \in 1..(Len(cam) - 1) :
                 /\ ps[2 * i].accion.fmt = "Evaluar vecinos de"
                 /\ ps[2 * i + 1].nodo_actual = Algo(cam[i + 1])
                 /\ <<cam[i], cam[i + 1], PesoElegido(ps[2 * i].evaluaciones)>>
                      \in Rango(aristas)
            /\ ps[Len(ps)].costo_total = SumaElegidos(ps)
       /\ (r.inicio = r.final /\ r.inicio \in nodos) =>
            /\ r.camino = Algo(<<r.inicio>>)
            /\ \A i \in 1..Len(ps) :
                 ps[i].accion.fmt \notin {"Agregar vecinos de", "Evaluar vecinos de"}

\* the informed search returned a three-node path along a node that has two
\* parallel edges of different weights to the node it moved to
C28_Testigo ==
  /\ programa = "hc"
  /\ Len(retornos) >= 1
  /\ retornos[1].camino.hay
  /\ Len(retornos[1].camino.val) = 3
  /\ \E i, j \in 1..Len(aristas) :
       /\ aristas[i][1] = retornos[1].camino.val[1]
       /\ aristas[j][1] = retornos[1].camino.val[1]
       /\ aristas[i][2] = retornos[1].camino.val[2]
       /\ aristas[j][2] = retornos[1].camino.val[2]
       /\ aristas[i][3] # aristas[j][3]

(* ------------------ adjacency queries (SpecConsulta) ------------------ *)
\* the loop "for dest, peso in self.adyacencias[origen]" of obtener_peso
RECURSIVE BuscarPeso(_, _)
BuscarPeso(l, destino) ==
  IF l = <<>> THEN Nada
  ELSE IF Head(l)[1] = destino THEN Algo(Head(l)[2])
       ELSE BuscarPeso(Tail(l), destino)

\* a faulty obtener_peso: keeps looping and returns the last matching weight
obtener_peso_ultimo(ady, origen, destino) ==
  LET l == Acceder(ady, origen)[origen]
  IN BuscarPeso([i \in 1..Len(l) |-> l[Len(l) + 1 - i]], destino)

\* Grafo.obtener_peso on the adjacency map after the defaultdict read
obtener_peso(ady, origen, destino) ==
  BuscarPeso(Acceder(ady, origen)[origen], destino)

\* the labels the queries are asked about: Z is in no graph
NodosConsulta == NodosBase \cup {<<"Z">>}

\* a graph built by at most MaxAristasConsulta insertions
InitConsulta ==
  /\ programa \in {"bfs", "hc"}
  /\ \E as \in SeqsHasta(AristasBase, MaxAristasConsulta) :
       LET g == GrafoDe(as)
       IN /\ adyacencias = g.adyacencias
          /\ aristas = g.aristas
          /\ nodos = g.nodos
          /\ posiciones_nodos = g.posiciones_nodos
  /\ ultimo = Resultado("init", FALSE, "", 0, <<>>, [x |-> 0])
  /\ BusquedaEnReposo
  /\ AnimacionEnReposo

\* Grafo.obtener_vecinos(nodo) / Grafo.obtener_vecinos_con_peso(nodo)
ConsultarVecinos(n) ==
  /\ ultimo' = Resultado("obtener_vecinos",
                         IF programa = "bfs" THEN obtener_vecinos(adyacencias, n)
                         ELSE obtener_vecinos_con_peso(adyacencias, n),
                         "", 0, <<>>, [nodo |-> n])
  /\ adyacencias' = Acceder(adyacencias, n)
  /\ UNCHANGED <<programa, aristas, nodos, posiciones_nodos, busquedaVars, animVars>>

\* Grafo.obtener_peso(origen, destino)
ConsultarPeso(o, d) ==
  /\ ultimo' = Resultado("obtener_peso", obtener_peso(adyacencias, o, d),
                         "", 0, <<>>, [origen |-> o, destino |-> d])
  /\ adyacencias' = Acceder(adyacencias, o)
  /\ UNCHANGED <<programa, aristas, nodos, posiciones_nodos, busquedaVars, animVars>>

NextConsulta ==
  \/ \E n \in NodosConsulta : ConsultarVecinos(n)
  \/ \E o \in NodosConsulta, d \in NodosConsulta : ConsultarPeso(o, d)

SpecConsulta == InitConsulta /\ [][NextConsulta]_vars

\* the edges of the edge list that leave n, in insertion order
AristasDesde(n) == SelectSeq(aristas, LAMBDA a : a[1] = n)

\* C25: a neighbour query returns one entry per edge added from the node, in
\* insertion order with parallel edges kept, and the empty sequence without
\* an error for a node with no outgoing edge or an unknown node; obtener_peso
\* returns the weight of the first edge added from source to target, and
\* None when there is none.
C25_Consultas ==
  /\ ultimo.op = "obtener_vecinos" =>
       LET l == AristasDesde(ultimo.entrada.nodo)
       IN /\ ultimo.exc = ""
          /\ Len(ultimo.ret) = Len(l)
          /\ \A i \in 1..Len(l) :
               ultimo.ret[i] = IF programa = "bfs" THEN l[i][2]
                               ELSE <<l[i][2], l[i][3]>>
  /\ ultimo.op = "obtener_peso" =>
       LET l == SelectSeq(AristasDesde(ultimo.entrada.origen),
                          LAMBDA a : a[2] = ultimo.entrada.destino)
       IN /\ ultimo.exc = ""
          /\ ultimo.ret = IF l = <<>> THEN Nada ELSE Algo(l[1][3])

\* obtener_peso was asked about two parallel edges of different weights
C25_Testigo ==
  /\ ultimo.op = "obtener_peso"
  /\ ultimo.ret.hay
  /\ \E i, j \in 1..Len(aristas) :
       /\ i < j
       /\ aristas[i][1] = ultimo.entrada.origen
       /\ aristas[j][1] = ultimo.entrada.origen
       /\ aristas[i][2] = ultimo.entrada.destino
       /\ aristas[j][2] = ultimo.entrada.destino
       /\ aristas[i][3] # aristas[j][3]

(* ---------------- the replay of a trace (SpecAnimacion) --------------- *)
\* the contents of the list InterfazGrafica.pasos_busqueda names: its own
\* list, or the searcher's list object once a search returned that one
TrazaGui == IF traza_gui.alias THEN pasos_busqueda ELSE traza_gui.propia

\* the main thread is between two callbacks
GuiLibre == pc = "reposo" /\ asignados = Len(retornos)

\* the driver's record of a button that was pressed
Boton(op) == Resultado(op, TRUE, "", 0, <<>>, [x |-> 0])

\* the interface right after the graph of scenario B was entered
InitAnimacion ==
  /\ programa \in {"bfs", "hc"}
  /\ LET g == GrafoDe(AristasEscenarioB)
     IN /\ adyacencias = g.adyacencias
        /\ aristas = g.aristas
        /\ nodos = g.nodos
        /\ posiciones_nodos = g.posiciones_nodos
  /\ ultimo = Resultado("init", FALSE, "", 0, <<>>, [x |-> 0])
  /\ BusquedaEnReposo
  /\ AnimacionEnReposo

\* InterfazGrafica._iniciar_busqueda up to the call of buscar_camino
IniciarBusqueda(i, f) ==
  /\ GuiLibre
  /\ aristas # <<>>
  /\ (BfsLlamar(i, f) \/ HcLlamar(i, f))

\* _iniciar_busqueda after buscar_camino returned:
\* self.pasos_busqueda = pasos; self.paso_actual_animacion = 0
AsignarTraza ==
  /\ pc = "reposo"
  /\ asignados < Len(retornos)
  /\ traza_gui' = IF retornos[asignados + 1].propio
                  THEN [alias |-> FALSE, propia |-> retornos[asignados + 1].pasos]
                  ELSE [alias |-> TRUE, propia |-> <<>>]
  /\ paso_actual_animacion' = 0
  /\ asignados' = asignados + 1
  /\ ultimo' = Boton("buscar")
  /\ UNCHANGED <<programa, grafoVars, busquedaVars, animacion_activa, hilos, eventos>>

\* InterfazGrafica._iniciar_animacion: warns on an empty trace, otherwise sets
\* the flag, resets the index and starts a thread on _ejecutar_animacion
IniciarAnimacion ==
  /\ GuiLibre
  /\ IF TrazaGui = <<>>
     THEN /\ ultimo' = Boton("advertencia_animacion")
          /\ UNCHANGED animVars
     ELSE /\ \E h \in 1..MaxHilos :
               /\ hilos[h].pc = "nulo"
               /\ \A j \in 1..(h - 1) : hilos[j].pc # "nulo"
               /\ hilos' = [hilos EXCEPT ![h] = [HiloNulo EXCEPT !.pc = "activa"]]
          /\ animacion_activa' = TRUE
          /\ paso_actual_animacion' = 0
          /\ ultimo' = Boton("iniciar_animacion")
          /\ UNCHANGED <<traza_gui, asignados, eventos>>
  /\ UNCHANGED <<programa, grafoVars, busquedaVars>>

\* InterfazGrafica._pausar_animacion
PausarAnimacion ==
  /\ GuiLibre
  /\ animacion_activa' = FALSE
  /\ ultimo' = Boton("pausar")
  /\ UNCHANGED <<programa, grafoVars, busquedaVars, paso_actual_animacion, traza_gui,
                 asignados, hilos, eventos>>

\* InterfazGrafica._reiniciar_animacion
ReiniciarAnimacion ==
  /\ GuiLibre
  /\ animacion_activa' = FALSE
  /\ paso_actual_animacion' = 0
  /\ ultimo' = Boton("reiniciar")
  /\ UNCHANGED <<programa, grafoVars, busquedaVars, traza_gui, asignados, hilos,
                 eventos>>

\* InterfazGrafica._limpiar_grafo: empties the graph and clears the list
\* self.pasos_busqueda names, in place
LimpiarGrafoGui ==
  /\ GuiLibre
  /\ PonerGrafo(limpiar(GrafoActual))
  /\ IF traza_gui.alias
     THEN pasos_busqueda' = <<>> /\ UNCHANGED traza_gui
     ELSE traza_gui' = [traza_gui EXCEPT !.propia = <<>>] /\ UNCHANGED pasos_busqueda
  /\ ultimo' = Boton("limpiar")
  /\ UNCHANGED <<programa, animacion_activa, paso_actual_animacion, asignados, hilos,
                 eventos, cola, visitados, padre, inicio, final, paso, nodo_actual,
                 camino, costo_total, max_iteraciones, posiciones_canvas, retornos, pc>>

\* the main loop runs the oldest queued callback: _actualizar_paso_animacion
\* only draws, _animacion_completada clears the flag
ProcesarEvento ==
  /\ GuiLibre
  /\ eventos # <<>>
  /\ eventos' = Tail(eventos)
  /\ animacion_activa' = IF Head(eventos).tipo = "completada" THEN FALSE
                         ELSE animacion_activa
  /\ UNCHANGED <<programa, grafoVars, busquedaVars, ultimo, paso_actual_animacion,
                 traza_gui, asignados, hilos>>

\* what a step of thread h leaves alone besides the variables it names
HiloDeja == UNCHANGED <<programa, grafoVars, busquedaVars, ultimo, animacion_activa,
                        traza_gui, asignados>>

\* _ejecutar_animacion, "while self.animacion_activa and ...": the flag
HiloCondActiva(h) ==
  /\ hilos[h].pc = "activa"
  /\ hilos' = [hilos EXCEPT ![h].pc = IF animacion_activa THEN "indice" ELSE "fin"]
  /\ HiloDeja
  /\ UNCHANGED <<paso_actual_animacion, eventos>>

\* "... and self.paso_actual_animacion < len(self.pasos_busqueda)"
HiloCondIndice(h) ==
  /\ hilos[h].pc = "indice"
  /\ hilos' = [hilos EXCEPT ![h].pc = IF paso_actual_animacion < Len(TrazaGui)
                                       THEN "leer" ELSE "fin"]
  /\ HiloDeja
  /\ UNCHANGED <<paso_actual_animacion, eventos>>

\* paso = self.pasos_busqueda[self.paso_actual_animacion]; an index past the
\* end raises IndexError, which ends the thread
HiloLeer(h) ==
  /\ hilos[h].pc = "leer"
  /\ hilos' = IF paso_actual_animacion < Len(TrazaGui)
              THEN [hilos EXCEPT ![h] = [pc |-> "programar",
                                         paso |-> Algo(TrazaGui[paso_actual_animacion + 1]),
                                         leido |-> 0]]
              ELSE [hilos EXCEPT ![h] = HiloNulo]
  /\ HiloDeja
  /\ UNCHANGED <<paso_actual_animacion, eventos>>

\* self.ventana.after(0, self._actualizar_paso_animacion, paso)
HiloProgramar(h) ==
  /\ hilos[h].pc = "programar"
  /\ Len(eventos) < MaxEventos
  /\ eventos' = Append(eventos, [tipo |-> "paso", paso |-> hilos[h].paso])
  /\ hilos' = [hilos EXCEPT ![h] = [pc |-> "dormir", paso |-> Nada, leido |-> 0]]
  /\ HiloDeja
  /\ UNCHANGED paso_actual_animacion

\* the end of time.sleep and the read of "self.paso_actual_animacion += 1"
HiloDespertar(h) ==
  /\ hilos[h].pc = "dormir"
  /\ hilos' = [hilos EXCEPT ![h] = [pc |-> "guardar", paso |-> Nada,
                                     leido |-> paso_actual_animacion]]
  /\ HiloDeja
  /\ UNCHANGED <<paso_actual_animacion, eventos>>

\* the write of "self.paso_actual_animacion += 1"
HiloGuardar(h) ==
  /\ hilos[h].pc = "guardar"
  /\ hilos[h].leido < MaxIndice
  /\ paso_actual_animacion' = hilos[h].leido + 1
  /\ hilos' = [hilos EXCEPT ![h] = [pc |-> "activa", paso |-> Nada, leido |-> 0]]
  /\ HiloDeja
  /\ UNCHANGED eventos

\* after the loop: "if self.paso_actual_animacion >= len(self.pasos_busqueda)"
\* queues _animacion_completada; the thread ends
HiloFin(h) ==
  /\ hilos[h].pc = "fin"
  /\ IF paso_actual_animacion >= Len(TrazaGui)
     THEN /\ Len(eventos) < MaxEventos
          /\ eventos' = Append(eventos, [tipo |-> "completada", paso |-> Nada])
     ELSE UNCHANGED eventos
  /\ hilos' = [hilos EXCEPT ![h] = HiloNulo]
  /\ HiloDeja
  /\ UNCHANGED paso_actual_animacion

\* the searches the user asks for before a replay
BusquedasAnimadas == {<<<<"C">>, <<"A">>>>, <<<<"A">>, <<"B">>>>}

NextAnimacion ==
  \/ \E b \in BusquedasAnimadas : IniciarBusqueda(b[1], b[2])
  \/ BfsIterar
  \/ BfsAgotar
  \/ HcIterar
  \/ HcSalir
  \/ AsignarTraza
  \/ IniciarAnimacion
  \/ PausarAnimacion
  \/ ReiniciarAnimacion
  \/ LimpiarGrafoGui
  \/ ProcesarEvento
  \/ \E h \in 1..MaxHilos :
       \/ HiloCondActiva(h)
       \/ HiloCondIndice(h)
       \/ HiloLeer(h)
       \/ HiloProgramar(h)
       \/ HiloDespertar(h)
       \/ HiloGuardar(h)
       \/ HiloFin(h)

SpecAnimacion == InitAnimacion /\ [][NextAnimacion]_vars

(* ----------------------- properties of the replay --------------------- *)
\* C18: once _reiniciar_animacion has run, the replay index is 0 and stays 0
\* for as long as restart is the last button pressed, whatever a replay
\* thread that was running or sleeping does meanwhile, and the recorded trace
\* stays as it was.
C18_ReinicioEnCero ==
  [][ultimo'.op = "reiniciar" =>
       /\ paso_actual_animacion' = 0
       /\ TrazaGui' = TrazaGui]_vars

\* a step of the trace is queued for display
NuevoPasoProgramado ==
  /\ Len(eventos') = Len(eventos) + 1
  /\ eventos'[Len(eventos')].tipo = "paso"

\* C19: once _pausar_animacion has run, for as long as pause is the last
\* button pressed, no further trace step is queued for display and the replay
\* index does not change, whatever the replay thread does meanwhile, and the
\* recorded trace stays as it was.
C19_PausaDetiene ==
  [][ultimo'.op = "pausar" =>
       /\ paso_actual_animacion' = paso_actual_animacion
       /\ ~NuevoPasoProgramado
       /\ TrazaGui' = TrazaGui]_vars

\* the replay workers that are inside the body of the replay loop
HilosEnBucle ==
  {h \in 1..MaxHilos : hilos[h].pc \in {"leer", "programar", "dormir", "guardar"}}

\* C29 as stated: at most one replay worker reads and advances the replay
\* index at a time, whenever and however often start is pressed.
C29_UnSoloHilo == Cardinality(HilosEnBucle) <= 1

\* C30 as stated: when a replay worker reads self.pasos_busqueda at the replay
\* index, the index is smaller than the length the list has at that moment,
\* whatever the main thread did (a clear of the graph, a search) since the
\* worker tested the index.
C30_LecturaEnRango ==
  \A h \in 1..MaxHilos :
    hilos[h].pc = "leer" => paso_actual_animacion < Len(TrazaGui)

====
